---------------------------- MODULE Spec2Model ----------------------------
(***************************************************************************)
(* Elliptic-curve group arithmetic of btclib (src/btclib/curvegroup.py):   *)
(* curve construction, affine and Jacobian point arithmetic, the scalar    *)
(* multiplication algorithms, Shamir-Strauss and Bos-Coster.               *)
(*                                                                         *)
(* A state is one call on a curve object: ec is the curve the call is made *)
(* on, call the operation and its arguments, ret what it returned (a value *)
(* or the exception raised), pc whether a call is outstanding.             *)
(*                                                                         *)
(* Python integers are unbounded and the code reduces modulo p only when   *)
(* it builds a result.  Reduction modulo p commutes with +, - and *, and   *)
(* the code observes the intermediate values only modulo p, so the         *)
(* operators below reduce the intermediate products as well: the results   *)
(* are the same and every number stays inside TLC's 32-bit integers.       *)
(***************************************************************************)
EXTENDS Integers, Sequences, FiniteSets, TLC

VARIABLES ec, pc, call, ret, multiples_cache, fixwind_cache, threads

vars == <<ec, pc, call, ret, multiples_cache, fixwind_cache, threads>>

\* the tables kept by the two functools.lru_cache decorators
caches == <<multiples_cache, fixwind_cache>>

-----------------------------------------------------------------------------
(* Results of a call: a returned value, or the exception raised.           *)

Ok(v) == [ok |-> TRUE, val |-> v, err |-> ""]

Err(msg) == [ok |-> FALSE, val |-> <<>>, err |-> msg]

NoCall == [op |-> "none"]

NoRet == [ok |-> FALSE, val |-> <<>>, err |-> "none"]

-----------------------------------------------------------------------------
(* Field arithmetic (btclib.numbertheory, btclib.alias: not in src/).      *)

\* the affine and the Jacobian infinity point
INF == <<0, 0>>

INFJ == <<0, 0, 0>>

\* pow(b, e, m) of Python, by square and multiply
RECURSIVE pow(_, _, _)
pow(b, e, m) ==
    IF e = 0 THEN 1 % m
    ELSE LET h == pow(b, e \div 2, m)
             s == (h * h) % m
         IN  IF e % 2 = 1 THEN (s * (b % m)) % m ELSE s

\* mod_inv(a, m) raises when a has no inverse
mod_inv_raises(a, m) == a % m = 0

mod_inv(a, m) == pow(a % m, m - 2, m)

\* +1 for a quadratic residue, -1 for a non-residue, 0 for 0
legendre_symbol(a, p) ==
    IF a % p = 0 THEN 0
    ELSE IF pow(a, (p - 1) \div 2, p) = 1 THEN 1 ELSE -1

\* mod_sqrt(a, p) raises when a is a quadratic non-residue
mod_sqrt_raises(a, p) == legendre_symbol(a, p) = -1

\* the roots mod_sqrt(a, p) may return: the direct formula a^((p+1)/4) when
\* p = 3 (mod 4); for p = 1 (mod 4) (Tonelli-Shanks) either root
mod_sqrt_roots(a, p) ==
    IF p % 4 = 3 THEN {pow(a, (p + 1) \div 4, p)}
    ELSE {r \in 0..(p - 1) : (r * r) % p = a % p}

-----------------------------------------------------------------------------
(* class CurveGroup                                                        *)

RECURSIVE bit_length(_)
bit_length(i) == IF i <= 0 THEN 0 ELSE 1 + bit_length(i \div 2)

\* ceil(plen / 8)
ceil8(plen) == (plen + 7) \div 8

\* CurveGroup.__init__ accepting a = p
CurveGroup_a_up_to_p(p, a, b) ==
    IF p < 2 \/ p % 2 = 0 \/ pow(2, p - 1, p) # 1 THEN Err("p is not prime")
    ELSE IF a < 0 THEN Err("negative a")
    ELSE IF p < a THEN Err("p <= a")
    ELSE IF b < 0 THEN Err("negative b")
    ELSE IF p <= b THEN Err("p <= b")
    ELSE IF (((4 * a * a) % p) * a + 27 * b * b) % p = 0 THEN Err("zero discriminant")
    ELSE Ok([p |-> p, a |-> a, b |-> b,
             psize |-> ceil8(bit_length(p)),
             pIsThreeModFour |-> (p % 4 = 3)])

\* CurveGroup.__init__ without the Fermat test of p
CurveGroup_without_fermat(p, a, b) ==
    IF p < 2 \/ p % 2 = 0 THEN Err("p is not prime")
    ELSE IF a < 0 THEN Err("negative a")
    ELSE IF p <= a THEN Err("p <= a")
    ELSE IF b < 0 THEN Err("negative b")
    ELSE IF p <= b THEN Err("p <= b")
    ELSE IF (((4 * a * a) % p) * a + 27 * b * b) % p = 0 THEN Err("zero discriminant")
    ELSE Ok([p |-> p, a |-> a, b |-> b,
             psize |-> ceil8(bit_length(p)),
             pIsThreeModFour |-> (p % 4 = 3)])

\* CurveGroup.__init__: the object built, or the ValueError raised
CurveGroup(p, a, b) ==
    IF p < 2 \/ p % 2 = 0 \/ pow(2, p - 1, p) # 1 THEN Err("p is not prime")
    ELSE IF a < 0 THEN Err("negative a")
    ELSE IF p <= a THEN Err("p <= a")
    ELSE IF b < 0 THEN Err("negative b")
    ELSE IF p <= b THEN Err("p <= b")
    ELSE IF (((4 * a * a) % p) * a + 27 * b * b) % p = 0 THEN Err("zero discriminant")
    ELSE Ok([p |-> p, a |-> a, b |-> b,
             psize |-> ceil8(bit_length(p)),
             pIsThreeModFour |-> (p % 4 = 3)])

\* _jac_from_aff reading Z off the x-coordinate
_jac_from_aff_z_of_x(Q) == <<Q[1], Q[2], IF Q[1] # 0 THEN 1 ELSE 0>>

_jac_from_aff(Q) == <<Q[1], Q[2], IF Q[2] # 0 THEN 1 ELSE 0>>

negate(Q, c) == <<Q[1], (c.p - Q[2]) % c.p>>

negate_jac(Q, c) == <<Q[1], (c.p - Q[2]) % c.p, Q[3]>>

_aff_from_jac(Q, c) ==
    IF Q[3] = 0 THEN INF
    ELSE LET Z2 == (Q[3] * Q[3]) % c.p
             x  == Q[1] * mod_inv(Z2, c.p)
             y  == Q[2] * mod_inv(Z2 * Q[3], c.p)
         IN  <<x % c.p, y % c.p>>

\* _x_aff_from_jac: the affine x, or the ValueError of the infinity point
_x_aff_from_jac(Q, c) ==
    IF Q[3] = 0 THEN Err("infinity point has no x-coordinate")
    ELSE LET Z2 == (Q[3] * Q[3]) % c.p
         IN  Ok((Q[1] * mod_inv(Z2, c.p)) % c.p)

\* _jac_equality: equality of the affine points by cross-multiplication
_jac_equality(QJ, PJ, c) ==
    LET p   == c.p
        PJ2 == (PJ[3] * PJ[3]) % p
        QJ2 == (QJ[3] * QJ[3]) % p
    IN  IF (QJ[1] * PJ2) % p # (PJ[1] * QJ2) % p
        THEN FALSE
        ELSE LET PJ3 == (PJ2 * PJ[3]) % p
                 QJ3 == (QJ2 * QJ[3]) % p
             IN  (QJ[2] * PJ3) % p = (PJ[2] * QJ3) % p

\* _double_jac with the tangent slope of a curve whose a is 0
_double_jac_without_a(Q, c) ==
    LET p   == c.p
        QY2 == (Q[2] * Q[2]) % p
        W   == (3 * Q[1] * Q[1]) % p
        V   == (4 * Q[1] * QY2) % p
        X   == (W * W - 2 * V) % p
        Y   == (W * (V - X) - 8 * ((QY2 * QY2) % p)) % p
        Z   == (2 * Q[2] * Q[3]) % p
    IN  <<X, Y, Z>>

_double_jac(Q, c) ==
    LET p   == c.p
        QZ2 == (Q[3] * Q[3]) % p
        QY2 == (Q[2] * Q[2]) % p
        W   == (3 * Q[1] * Q[1] + c.a * ((QZ2 * QZ2) % p)) % p
        V   == (4 * Q[1] * QY2) % p
        X   == (W * W - 2 * V) % p
        Y   == (W * (V - X) - 8 * ((QY2 * QY2) % p)) % p
        Z   == (2 * Q[2] * Q[3]) % p
    IN  <<X, Y, Z>>

_add_jac(Q, R, c) ==
    LET p   == c.p
        RZ2 == (R[3] * R[3]) % p
        RZ3 == (RZ2 * R[3]) % p
        QZ2 == (Q[3] * Q[3]) % p
        QZ3 == (QZ2 * Q[3]) % p
        M   == (Q[1] * RZ2) % p
        N   == (R[1] * QZ2) % p
        T   == (Q[2] * RZ3) % p
        U   == (R[2] * QZ3) % p
    IN  IF M = N /\ T = U
        THEN \* point doubling, returned before the infinity fix below
             _double_jac(Q, c)
        ELSE LET W   == (U - T) % p
                 V   == (N - M) % p
                 V2  == (V * V) % p
                 V3  == (V2 * V) % p
                 MV2 == (M * V2) % p
                 X   == (W * W - V3 - 2 * MV2) % p
                 Y   == (W * (MV2 - X) - T * V3) % p
                 Z   == (((V * Q[3]) % p) * R[3]) % p
                 ret_values == <<<<X, Y, Z>>, R, Q, INFJ>>
                 i   == (IF Q[3] = 0 THEN 1 ELSE 0) + (IF R[3] = 0 THEN 2 ELSE 0)
             IN  ret_values[i + 1]

\* a value no point is: what an operator yields when the code raises inside
Raised == <<-1>>

_double_aff(Q, c) ==
    IF Q[2] = 0 THEN INF
    ELSE IF mod_inv_raises(2 * Q[2], c.p) THEN Raised
    ELSE LET p   == c.p
             lam == ((3 * Q[1] * Q[1] + c.a) % p) * mod_inv(2 * Q[2], p)
             x   == (lam * lam - Q[1] - Q[1]) % p
             y   == (lam * (Q[1] - x) - Q[2]) % p
         IN  <<x, y>>

\* _add_aff returning the infinity point Q where the code returns R
_add_aff_inf_first(Q, R, c) ==
    IF R[2] = 0 THEN Q
    ELSE IF Q[2] = 0 THEN Q
    ELSE IF R[1] = Q[1]
         THEN IF R[2] = Q[2] THEN _double_aff(R, c) ELSE INF
    ELSE IF mod_inv_raises(R[1] - Q[1], c.p) THEN Raised
    ELSE LET p   == c.p
             lam == ((R[2] - Q[2]) % p) * mod_inv(R[1] - Q[1], p)
             x   == (lam * lam - Q[1] - R[1]) % p
             y   == (lam * (Q[1] - x) - Q[2]) % p
         IN  <<x, y>>

_add_aff(Q, R, c) ==
    IF R[2] = 0 THEN Q
    ELSE IF Q[2] = 0 THEN R
    ELSE IF R[1] = Q[1]
         THEN IF R[2] = Q[2] THEN _double_aff(R, c) ELSE INF
    ELSE IF mod_inv_raises(R[1] - Q[1], c.p) THEN Raised
    ELSE LET p   == c.p
             lam == ((R[2] - Q[2]) % p) * mod_inv(R[1] - Q[1], p)
             x   == (lam * lam - Q[1] - R[1]) % p
             y   == (lam * (Q[1] - x) - Q[2]) % p
         IN  <<x, y>>

_y2(x, c) == ((x * x + c.a) * x + c.b) % c.p

\* is_on_curve of a 2-tuple: TRUE, FALSE, or the ValueError raised
is_on_curve(Q, c) ==
    IF Q[2] = 0 THEN Ok(TRUE)
    ELSE IF ~(0 < Q[2] /\ Q[2] < c.p) THEN Err("y-coordinate not in 1..p-1")
    ELSE Ok(_y2(Q[1], c) = (Q[2] * Q[2]) % c.p)

\* require_on_curve raises unless is_on_curve returns True
require_on_curve_passes(Q, c) ==
    is_on_curve(Q, c).ok /\ is_on_curve(Q, c).val

add(Q1, Q2, c) ==
    IF ~is_on_curve(Q1, c).ok THEN is_on_curve(Q1, c)
    ELSE IF ~is_on_curve(Q1, c).val THEN Err("point not on curve")
    ELSE IF ~is_on_curve(Q2, c).ok THEN is_on_curve(Q2, c)
    ELSE IF ~is_on_curve(Q2, c).val THEN Err("point not on curve")
    ELSE IF _add_aff(Q1, Q2, c) = Raised THEN Err("mod_inv")
    ELSE Ok(_add_aff(Q1, Q2, c))

-----------------------------------------------------------------------------
(* Scalar multiplication.  Each routine returns Ok(point) or the error it  *)
(* raises.  Python lists are 0-based, sequences 1-based: T[k] is T[k + 1]. *)

\* _mult_aff, the while loop: R is the list [R[0], R[1]]
RECURSIVE _mult_aff_loop(_, _, _, _)
_mult_aff_loop(m, Q, R, c) ==
    IF m > 0
    THEN LET Q2 == _double_aff(Q, c)
             R1 == <<R[1], _add_aff(R[1], Q2, c)>>
             R2 == <<R1[(m % 2) + 1], R1[2]>>
         IN  _mult_aff_loop(m \div 2, Q2, R2, c)
    ELSE R[1]

_mult_aff(m, Q, c) ==
    IF m < 0 THEN Err("negative m")
    ELSE LET R  == <<INF, Q>>
             R1 == <<R[(m % 2) + 1], R[2]>>
         IN  Ok(_mult_aff_loop(m \div 2, Q, R1, c))

\* R[not bit] = P: slot 0 when the bit is 1, slot 1 when it is 0
SetNotBit(R, bit, P) == IF bit = 1 THEN <<P, R[2]>> ELSE <<R[1], P>>

RECURSIVE _mult_jac_loop(_, _, _, _)
_mult_jac_loop(m, Q, R, c) ==
    IF m > 0
    THEN LET Q2 == _double_jac(Q, c)
             R2 == SetNotBit(R, m % 2, _add_jac(R[1], Q2, c))
         IN  _mult_jac_loop(m \div 2, Q2, R2, c)
    ELSE R[1]

_mult_jac(m, Q, c) ==
    IF m < 0 THEN Err("negative m")
    ELSE Ok(_mult_jac_loop(m \div 2, Q, SetNotBit(<<INFJ, Q>>, m % 2, Q), c))

\* multiples, one iteration of the for loop: the two entries appended for i
multiples_iteration(i, T, Q, c) ==
    LET T1 == Append(T, _double_jac(T[((i - 1) \div 2) + 1], c))
    IN  Append(T1, _add_jac(T1[Len(T1)], Q, c))

\* multiples, the for loop over i in range(i, stop, 2)
RECURSIVE multiples_loop(_, _, _, _, _)
multiples_loop(i, stop, T, Q, c) ==
    IF i < stop
    THEN multiples_loop(i + 2, stop, multiples_iteration(i, T, Q, c), Q, c)
    ELSE T

\* multiples without the entry appended for an odd size
multiples_even_part(Q, size, c) ==
    IF size < 2 THEN Err("size too low")
    ELSE Ok(multiples_loop(3, (size \div 2) * 2, <<INFJ, Q>>, Q, c))

multiples(Q, size, c) ==
    IF size < 2 THEN Err("size too low")
    ELSE LET k   == size \div 2
             odd == size % 2
             T   == multiples_loop(3, k * 2, <<INFJ, Q>>, Q, c)
         IN  IF odd = 1
             THEN Ok(Append(T, _double_jac(T[((size - 1) \div 2) + 1], c)))
             ELSE Ok(T)

_MAX_W == 5

cached_multiples(Q, c) == multiples_loop(3, 2 ^ _MAX_W, <<INFJ, Q>>, Q, c)

\* cached_multiples_fixwind, one iteration of the outer loop: the sublist
\* of K appended, and the next K
cached_multiples_fixwind_iteration(K, T, w, c) ==
    LET sublist == multiples_loop(3, 2 ^ w, <<INFJ, K>>, K, c)
    IN  [K |-> _double_jac(sublist[(2 ^ (w - 1)) + 1], c),
         T |-> Append(T, sublist)]

\* cached_multiples_fixwind, the outer loop: left iterations to go
RECURSIVE cached_multiples_fixwind_loop(_, _, _, _, _)
cached_multiples_fixwind_loop(left, K, T, w, c) ==
    IF left > 0
    THEN LET next == cached_multiples_fixwind_iteration(K, T, w, c)
         IN  cached_multiples_fixwind_loop(left - 1, next.K, next.T, w, c)
    ELSE T

cached_multiples_fixwind(Q, c, w) ==
    cached_multiples_fixwind_loop(((c.psize * 8) \div w) + 1, Q, <<>>, w, c)

Reverse(s) == [k \in 1..Len(s) |-> s[Len(s) + 1 - k]]

\* convert_number_to_base, the while loop: digits least significant first
RECURSIVE convert_number_to_base_loop(_, _, _)
convert_number_to_base_loop(i, base, digits) ==
    IF i # 0 \/ digits = <<>>
    THEN convert_number_to_base_loop(i \div base, base, Append(digits, i % base))
    ELSE digits

\* convert_number_to_base without the reversal of the digits
convert_number_to_base_unreversed(i, base) ==
    convert_number_to_base_loop(i, base, <<>>)

convert_number_to_base(i, base) ==
    Reverse(convert_number_to_base_loop(i, base, <<>>))

\* e, with v evaluated first: the pair a loop has assigned is a value before
\* the next iteration reads it, as it is in the code
Evaluated(v, e) == IF v = v THEN e ELSE e

\* _mult_mont_ladder, the for loop over the binary digits
RECURSIVE _mult_mont_ladder_loop(_, _, _, _)
_mult_mont_ladder_loop(bits, k, R, c) ==
    IF k <= Len(bits)
    THEN LET i  == bits[k]
             A  == _add_jac(R[i + 1], R[(1 - i) + 1], c)
             R1 == SetNotBit(R, i, A)
             D  == _double_jac(R1[i + 1], c)
             R2 == IF i = 1 THEN <<R1[1], D>> ELSE <<D, R1[2]>>
         IN  Evaluated(R2, _mult_mont_ladder_loop(bits, k + 1, R2, c))
    ELSE R[1]

_mult_mont_ladder(m, Q, c) ==
    IF m < 0 THEN Err("negative m")
    ELSE Ok(_mult_mont_ladder_loop(convert_number_to_base(m, 2), 1, <<INFJ, Q>>, c))

\* _mult_base_3, the for loop over digits[1:]
RECURSIVE _mult_base_3_loop(_, _, _, _, _)
_mult_base_3_loop(digits, k, R, T, c) ==
    IF k <= Len(digits)
    THEN LET R2 == _double_jac(R, c)
             R3 == _add_jac(R2, R, c)
         IN  _mult_base_3_loop(digits, k + 1, _add_jac(R3, T[digits[k] + 1], c), T, c)
    ELSE R

_mult_base_3(m, Q, c) ==
    IF m < 0 THEN Err("negative m")
    ELSE LET T      == <<INFJ, Q, _double_jac(Q, c)>>
             digits == convert_number_to_base(m, 3)
         IN  Ok(_mult_base_3_loop(digits, 2, T[digits[1] + 1], T, c))

\* for _ in range(w): R = ec._double_jac(R)
RECURSIVE double_times(_, _, _)
double_times(w, R, c) ==
    IF w > 0 THEN double_times(w - 1, _double_jac(R, c), c) ELSE R

\* _mult_fixed_window, the for loop over digits[1:]
RECURSIVE _mult_fixed_window_loop(_, _, _, _, _, _)
_mult_fixed_window_loop(digits, k, R, T, w, c) ==
    IF k <= Len(digits)
    THEN _mult_fixed_window_loop(digits, k + 1,
             _add_jac(double_times(w, R, c), T[digits[k] + 1], c), T, w, c)
    ELSE R

\* _mult_fixed_window from the line after T is bound to the table
_mult_fixed_window_from(T, m, w, c) ==
    LET digits == convert_number_to_base(m, 2 ^ w)
    IN  IF digits[1] + 1 > Len(T) THEN Err("IndexError")
        ELSE Ok(_mult_fixed_window_loop(digits, 2, T[digits[1] + 1], T, w, c))

_mult_fixed_window(m, Q, c, w, cached) ==
    IF m < 0 THEN Err("negative m")
    ELSE IF w <= 0 THEN Err("non positive w")
    ELSE IF ~cached /\ ~multiples(Q, 2 ^ w, c).ok THEN multiples(Q, 2 ^ w, c)
    ELSE LET T == IF cached THEN cached_multiples(Q, c)
                  ELSE multiples(Q, 2 ^ w, c).val
         IN  _mult_fixed_window_from(T, m, w, c)

\* _mult_fixed_window_cached, the for loop: i is the digit index, k the window
RECURSIVE _mult_fixed_window_cached_loop(_, _, _, _, _, _)
_mult_fixed_window_cached_loop(digits, i, k, R, T, c) ==
    IF i < Len(digits)
    THEN _mult_fixed_window_cached_loop(digits, i + 1, k - 1,
             _add_jac(R, T[(k - 1) + 1][digits[i + 1] + 1], c), T, c)
    ELSE R

\* _mult_fixed_window_cached from the line after T is bound to the table
_mult_fixed_window_cached_from(T, m, w, c) ==
    LET digits == convert_number_to_base(m, 2 ^ w)
        k      == Len(digits) - 1
    IN  IF k + 1 > Len(T) THEN Err("IndexError")
        ELSE Ok(_mult_fixed_window_cached_loop(digits, 1, k, T[k + 1][digits[1] + 1], T, c))

_mult_fixed_window_cached(m, Q, c, w) ==
    IF m < 0 THEN Err("negative m")
    ELSE IF w <= 0 THEN Err("non positive w")
    ELSE _mult_fixed_window_cached_from(cached_multiples_fixwind(Q, c, w), m, w, c)

\* the default scalar multiplication, with the default w = 4, cached = False
_mult(m, Q, c) == _mult_fixed_window(m, Q, c, 4, FALSE)


-----------------------------------------------------------------------------
(* Double and multi scalar multiplication.                                 *)

\* str.zfill: the digits left-padded with zeros to the width
RECURSIVE zfill(_, _)
zfill(bits, width) == IF Len(bits) < width THEN zfill(<<0>> \o bits, width) ELSE bits

\* _double_mult, the for loop over digits[1:]
RECURSIVE _double_mult_loop(_, _, _, _, _)
_double_mult_loop(digits, k, R, T, c) ==
    IF k <= Len(digits)
    THEN _double_mult_loop(digits, k + 1,
             _add_jac(_double_jac(R, c), T[digits[k] + 1], c), T, c)
    ELSE R

_double_mult(u, HJ, v, QJ, c) ==
    IF u < 0 THEN Err("negative first coefficient")
    ELSE IF v < 0 THEN Err("negative second coefficient")
    ELSE LET T      == <<INFJ, HJ, QJ, _add_jac(HJ, QJ, c)>>
             ui0    == convert_number_to_base(u, 2)
             vi     == zfill(convert_number_to_base(v, 2), Len(ui0))
             ui     == zfill(ui0, Len(vi))
             digits == [k \in 1..Len(ui) |-> ui[k] + 2 * vi[k]]
         IN  Ok(_double_mult_loop(digits, 2, T[digits[1] + 1], T, c))

\* the order of Python tuples (-n, (X, Y, Z)): heapq pops the least entry
EntryLess(e, f) ==
    \/ e[1] < f[1]
    \/ e[1] = f[1] /\ e[2][1] < f[2][1]
    \/ e[1] = f[1] /\ e[2][1] = f[2][1] /\ e[2][2] < f[2][2]
    \/ e[1] = f[1] /\ e[2][1] = f[2][1] /\ e[2][2] = f[2][2] /\ e[2][3] < f[2][3]

\* heapq.heappush; the heap is kept as the sorted sequence of its entries, the
\* least first: heappop returns the least entry whatever the heap's layout
RECURSIVE heappush(_, _)
heappush(x, e) ==
    IF x = <<>> THEN <<e>>
    ELSE IF EntryLess(e, Head(x)) \/ e = Head(x) THEN <<e>> \o x
    ELSE <<Head(x)>> \o heappush(Tail(x), e)

RECURSIVE heapify(_)
heapify(x) == IF x = <<>> THEN <<>> ELSE heappush(heapify(Tail(x)), Head(x))

\* the filter loop skipping the negative scalars as it skips the zeros
RECURSIVE multi_mult_filter_skipping_negative(_, _, _, _)
multi_mult_filter_skipping_negative(scalars, JPoints, k, x) ==
    IF k > Len(scalars) THEN Ok(x)
    ELSE IF scalars[k] <= 0
    THEN multi_mult_filter_skipping_negative(scalars, JPoints, k + 1, x)
    ELSE multi_mult_filter_skipping_negative(scalars, JPoints, k + 1,
                           Append(x, <<-scalars[k], JPoints[k]>>))

\* _multi_mult, the filter loop: the list x, or the error of the first
\* negative scalar met
RECURSIVE multi_mult_filter(_, _, _, _)
multi_mult_filter(scalars, JPoints, k, x) ==
    IF k > Len(scalars) THEN Ok(x)
    ELSE IF scalars[k] = 0 THEN multi_mult_filter(scalars, JPoints, k + 1, x)
    ELSE IF scalars[k] < 0 THEN Err("negative coefficient")
    ELSE multi_mult_filter(scalars, JPoints, k + 1,
                           Append(x, <<-scalars[k], JPoints[k]>>))

\* an iteration that pushes n1 back as it was
BosCosterStep_keeping_n1(x, c) ==
    LET np1 == x[1]
        np2 == x[2]
        p2  == _add_jac(np1[2], np2[2], c)
    IN  heappush(heappush(Tail(Tail(x)), np1), <<np2[1], p2>>)

\* one iteration of the while loop of _multi_mult
BosCosterStep(x, c) ==
    LET np1 == x[1]
        np2 == x[2]
        x0  == Tail(Tail(x))
        n1  == -np1[1]
        p1  == np1[2]
        n2  == -np2[1]
        p2  == _add_jac(p1, np2[2], c)
        n1b == n1 - n2
        x1  == IF n1b > 0 THEN heappush(x0, <<-n1b, p1>>) ELSE x0
    IN  heappush(x1, <<-n2, p2>>)

RECURSIVE multi_mult_loop(_, _)
multi_mult_loop(x, c) ==
    IF Len(x) > 1 THEN multi_mult_loop(BosCosterStep(x, c), c) ELSE x

_multi_mult(scalars, JPoints, c) ==
    IF Len(scalars) # Len(JPoints)
    THEN Err("mismatch between number of scalars and points")
    ELSE LET f == multi_mult_filter(scalars, JPoints, 1, <<>>)
         IN  IF ~f.ok THEN f
             ELSE IF f.val = <<>> THEN Ok(INFJ)
             ELSE LET x == multi_mult_loop(heapify(f.val), c)
                  IN  _mult(-x[1][1], x[1][2], c)

-----------------------------------------------------------------------------
(* Recovery of the y coordinate.  mod_sqrt may return either root when     *)
(* p = 1 (mod 4), so each routine is the set of the results it may give.   *)

\* y accepting x = p
y_accepting_p(x, c) ==
    IF ~(0 <= x /\ x <= c.p) THEN {Err("x-coordinate not in 0..p-1")}
    ELSE IF mod_sqrt_raises(_y2(x, c), c.p) THEN {Err("invalid x-coordinate")}
    ELSE {Ok(root) : root \in mod_sqrt_roots(_y2(x, c), c.p)}

y(x, c) ==
    IF ~(0 <= x /\ x < c.p) THEN {Err("x-coordinate not in 0..p-1")}
    ELSE IF mod_sqrt_raises(_y2(x, c), c.p) THEN {Err("invalid x-coordinate")}
    ELSE {Ok(root) : root \in mod_sqrt_roots(_y2(x, c), c.p)}

\* require_p_ThreeModFour never raising
require_p_ThreeModFour_never_raises(c) == TRUE

\* require_p_ThreeModFour raises unless p = 3 (mod 4)
require_p_ThreeModFour_passes(c) == c.pIsThreeModFour

\* y_quadratic_residue returning the root of y(x) whatever quad_res is
y_quadratic_residue_select_root(root, quad_res, c) == root

\* the return statement of y_quadratic_residue, for the root y(x) gave
y_quadratic_residue_select(root, quad_res, c) ==
    IF legendre_symbol(root, c.p) = quad_res THEN root ELSE c.p - root

y_quadratic_residue(x, quad_res, c) ==
    IF quad_res \notin {0, 1} THEN {Err("quad_res must be bool or 1/0")}
    ELSE IF ~require_p_ThreeModFour_passes(c)
    THEN {Err("field prime is not equal to 3 mod 4")}
    ELSE {IF r.ok THEN Ok(y_quadratic_residue_select(r.val, quad_res, c)) ELSE r
          : r \in y(x, c)}

\* y_odd returning the root of y(x) when it is odd, whatever odd1even0 is
y_odd_ignoring_argument(x, odd1even0, c) ==
    IF odd1even0 \notin {0, 1} THEN {Err("odd1even0 must be bool or 1/0")}
    ELSE {IF r.ok THEN Ok(IF r.val % 2 = 1 THEN r.val ELSE c.p - r.val) ELSE r
          : r \in y(x, c)}

y_odd(x, odd1even0, c) ==
    IF odd1even0 \notin {0, 1} THEN {Err("odd1even0 must be bool or 1/0")}
    ELSE {IF r.ok
          THEN Ok(IF r.val % 2 = odd1even0 THEN r.val ELSE c.p - r.val)
          ELSE r
          : r \in y(x, c)}

\* y_low returning the low root whatever low1high0 is
y_low_ignoring_argument(x, low1high0, c) ==
    IF low1high0 \notin {0, 1} THEN {Err("low1high0 must be bool or 1/0")}
    ELSE {IF r.ok
          THEN Ok(IF c.p \div 2 >= r.val THEN r.val ELSE c.p - r.val)
          ELSE r
          : r \in y(x, c)}

\* (self.p // 2 >= root) == low1high0 compares a bool with 1 or 0
y_low(x, low1high0, c) ==
    IF low1high0 \notin {0, 1} THEN {Err("low1high0 must be bool or 1/0")}
    ELSE {IF r.ok
          THEN Ok(IF (IF c.p \div 2 >= r.val THEN 1 ELSE 0) = low1high0
                  THEN r.val ELSE c.p - r.val)
          ELSE r
          : r \in y(x, c)}

-----------------------------------------------------------------------------
(* The curves and the inputs of the calls.                                 *)

\* Curve(p, a, b, G, n, ...): the CurveGroup with its generator and order
Curve(p, a, b, G, n) ==
    LET g == CurveGroup(p, a, b).val
    IN  [p |-> g.p, a |-> g.a, b |-> g.b, psize |-> g.psize,
         pIsThreeModFour |-> g.pIsThreeModFour, G |-> G, n |-> n]

\* the test curves of very low cardinality
low_card_curves ==
    { Curve(13, 7, 6, <<1, 1>>, 11),  Curve(13, 0, 2, <<1, 9>>, 19),
      Curve(17, 6, 8, <<0, 12>>, 13), Curve(17, 3, 5, <<1, 14>>, 23),
      Curve(19, 0, 2, <<4, 16>>, 13), Curve(19, 2, 9, <<0, 16>>, 23),
      Curve(23, 9, 7, <<5, 4>>, 19),  Curve(23, 5, 1, <<0, 1>>, 31) }

\* the affine points of the curve: INF and the finite points, y # 0
Points(c) ==
    {INF} \cup {Q \in (0..(c.p - 1)) \X (1..(c.p - 1)) :
                   _y2(Q[1], c) = (Q[2] * Q[2]) % c.p}

\* tuples a caller may pass that are not points of the curve: a coordinate
\* moved out of range by p, and G moved off the curve
BadPoints(c) ==
    { <<c.G[1] + c.p, c.G[2]>>, <<c.G[1], c.G[2] + c.p>>,
      <<c.G[1], c.p>>, <<(c.G[1] + 1) % c.p, c.G[2]>> }

\* the largest scalar of a single multiplication
MaxScalar == 36

\* the least scalar with more base-2^w digits than cached_multiples_fixwind
\* has windows
WindowOverflow(c, w) == (2 ^ w) ^ (((c.psize * 8) \div w) + 1)

Scalars(c) == (-1..MaxScalar) \cup {WindowOverflow(c, 4)}

\* the largest scalar of a double multiplication
MaxDoubleScalar == 3

\* the longest list and the largest scalar of a multi multiplication
MaxMultiLen == 2

MaxMultiScalar == 3

\* the points of the multi multiplications: INF, G, -G and 2G
MultiPoints(c) == {INF, c.G, negate(c.G, c), _double_aff(c.G, c)}

SeqsUpTo(S, len) == UNION {[1..k -> S] : k \in 0..len}

MultAlgorithms ==
    {"aff", "jac", "mont_ladder", "base_3", "fixed_window", "fixed_window_cached"}

\* the call of one of the single-scalar routines, on the affine point Q
MultBy(alg, m, Q, c) ==
    CASE alg = "aff"          -> _mult_aff(m, Q, c)
      [] alg = "jac"          -> _mult_jac(m, _jac_from_aff(Q), c)
      [] alg = "mont_ladder"  -> _mult_mont_ladder(m, _jac_from_aff(Q), c)
      [] alg = "base_3"       -> _mult_base_3(m, _jac_from_aff(Q), c)
      [] alg = "fixed_window" -> _mult_fixed_window(m, _jac_from_aff(Q), c, 4, FALSE)
      [] OTHER                -> _mult_fixed_window_cached(m, _jac_from_aff(Q), c, 4)

\* the affine point a returned point stands for
Affine(P, c) == IF Len(P) = 3 THEN _aff_from_jac(P, c) ELSE P

-----------------------------------------------------------------------------
(* The state machine: a caller makes one call at a time on the curve ec.   *)

\* the entries a cache keeps, for the 128 of functools.lru_cache()
MaxCacheEntries == 2

\* the threads that call the decorated functions at the same time
Threads == {"t1", "t2"}

\* a thread outside of any call
IdleThread == [pc |-> "idle"]

\* the largest p of the groups the roots are looked up on
MaxGroupP == 13

\* every CurveGroup(p, a, b) the constructor builds with p <= MaxGroupP:
\* the finite points of these may have y = 0
Groups ==
    {CurveGroup(t[1], t[2], t[3]).val :
        t \in {u \in (3..MaxGroupP) \X (0..MaxGroupP) \X (0..MaxGroupP) :
                  CurveGroup(u[1], u[2], u[3]).ok}}

TypeOK ==
    /\ ec \in low_card_curves \cup Groups
    /\ pc \in {"idle", "loop", "last", "done"}
    /\ call.op \in {"none", "add", "negate", "is_on_curve", "y",
                    "y_quadratic_residue", "mult", "double_mult",
                    "multi_mult", "CurveGroup", "y_odd", "y_low",
                    "_jac_from_aff", "_aff_from_jac", "_x_aff_from_jac",
                    "convert_number_to_base", "cached_multiples",
                    "cached_multiples_fixwind", "_mult_fixed_window",
                    "_mult_fixed_window_cached", "_add_jac",
                    "_double_jac", "_jac_equality", "multiples",
                    "_multi_mult", "mult_calls"}
    /\ Len(multiples_cache) <= MaxCacheEntries
    /\ Len(fixwind_cache) <= MaxCacheEntries
    /\ ret.ok \in BOOLEAN

Init ==
    /\ ec \in low_card_curves
    /\ pc = "idle"
    /\ call = NoCall
    /\ ret = NoRet
    /\ multiples_cache = <<>>
    /\ fixwind_cache = <<>>
    /\ threads = [t \in Threads |-> IdleThread]

\* ec.add(Q1, Q2)
CallAdd ==
    /\ pc = "idle"
    /\ \E Q1 \in Points(ec) \cup BadPoints(ec), Q2 \in Points(ec) \cup BadPoints(ec) :
          /\ call' = [op |-> "add", Q1 |-> Q1, Q2 |-> Q2]
          /\ ret' = add(Q1, Q2, ec)
    /\ pc' = "done"
    /\ UNCHANGED <<ec, caches, threads>>

\* ec.negate(Q)
CallNegate ==
    /\ pc = "idle"
    /\ \E Q \in Points(ec) \cup BadPoints(ec) :
          /\ call' = [op |-> "negate", Q |-> Q]
          /\ ret' = Ok(negate(Q, ec))
    /\ pc' = "done"
    /\ UNCHANGED <<ec, caches, threads>>

\* ec.is_on_curve((x, y)), for any pair of integers around the field range
CallIsOnCurve ==
    /\ pc = "idle"
    /\ \E x \in (-1)..(2 * ec.p), yy \in (-1)..(ec.p + 1) :
          /\ call' = [op |-> "is_on_curve", Q |-> <<x, yy>>]
          /\ ret' = is_on_curve(<<x, yy>>, ec)
    /\ pc' = "done"
    /\ UNCHANGED <<ec, caches, threads>>

\* ec.y(x)
CallY ==
    /\ pc = "idle"
    /\ \E x \in (-1)..ec.p :
          /\ call' = [op |-> "y", x |-> x]
          /\ ret' \in y(x, ec)
    /\ pc' = "done"
    /\ UNCHANGED <<ec, caches, threads>>

\* ec.y_quadratic_residue(x, quad_res)
CallYQuadraticResidue ==
    /\ pc = "idle"
    /\ \E x \in (-1)..ec.p, quad_res \in 0..2 :
          /\ call' = [op |-> "y_quadratic_residue", x |-> x, quad_res |-> quad_res]
          /\ ret' \in y_quadratic_residue(x, quad_res, ec)
    /\ pc' = "done"
    /\ UNCHANGED <<ec, caches, threads>>

\* one of the single-scalar multiplications of m and the point Q.  The table
\* "fixed_window_cached" leaves in its cache is followed by
\* CallMultFixedWindowCached; the value returned here does not depend on the
\* tables of earlier calls (C20_CacheTransparent), and the arithmetic
\* specification does not carry them.
CallMult ==
    /\ pc = "idle"
    /\ \E alg \in MultAlgorithms, m \in Scalars(ec), Q \in Points(ec) :
          /\ call' = [op |-> "mult", alg |-> alg, m |-> m, Q |-> Q]
          /\ ret' = MultBy(alg, m, Q, ec)
    /\ pc' = "done"
    /\ UNCHANGED <<ec, caches, threads>>

\* _double_mult(u, HJ, v, QJ, ec)
CallDoubleMult ==
    /\ pc = "idle"
    /\ \E u \in (-1)..MaxDoubleScalar, v \in (-1)..MaxDoubleScalar,
          H \in Points(ec), Q \in Points(ec) :
          /\ call' = [op |-> "double_mult", u |-> u, H |-> H, v |-> v, Q |-> Q]
          /\ ret' = _double_mult(u, _jac_from_aff(H), v, _jac_from_aff(Q), ec)
    /\ pc' = "done"
    /\ UNCHANGED <<ec, caches, threads>>

\* _multi_mult(scalars, JPoints, ec)
CallMultiMult ==
    /\ pc = "idle"
    /\ \E scalars \in SeqsUpTo((-1)..MaxMultiScalar, MaxMultiLen),
          points \in SeqsUpTo(MultiPoints(ec), MaxMultiLen) :
          /\ call' = [op |-> "multi_mult", scalars |-> scalars, points |-> points]
          /\ ret' = _multi_mult(scalars,
                                [k \in 1..Len(points) |-> _jac_from_aff(points[k])], ec)
    /\ pc' = "done"
    /\ UNCHANGED <<ec, caches, threads>>

\* ec.y_odd(x, odd1even0)
CallYOdd ==
    /\ pc = "idle"
    /\ \E x \in (-1)..ec.p, odd1even0 \in 0..2 :
          /\ call' = [op |-> "y_odd", x |-> x, odd1even0 |-> odd1even0]
          /\ ret' \in y_odd(x, odd1even0, ec)
    /\ pc' = "done"
    /\ UNCHANGED <<ec, caches, threads>>

\* ec.y_low(x, low1high0)
CallYLow ==
    /\ pc = "idle"
    /\ \E x \in (-1)..ec.p, low1high0 \in 0..2 :
          /\ call' = [op |-> "y_low", x |-> x, low1high0 |-> low1high0]
          /\ ret' \in y_low(x, low1high0, ec)
    /\ pc' = "done"
    /\ UNCHANGED <<ec, caches, threads>>

\* the Jacobian triples of the conversions: the points of the curve with
\* Z = 1 and with Z = 2, and triples with Z = 0
JacPoints(c) ==
    {_jac_from_aff(P) : P \in Points(c)}
    \cup {<<(4 * P[1]) % c.p, (8 * P[2]) % c.p, 2>> : P \in Points(c) \ {INF}}
    \cup {INFJ, <<1, 1, 0>>, <<c.G[1], c.G[2], 0>>}

\* _jac_from_aff(Q)
CallJacFromAff ==
    /\ pc = "idle"
    /\ \E Q \in Points(ec) :
          /\ call' = [op |-> "_jac_from_aff", Q |-> Q]
          /\ ret' = Ok(_jac_from_aff(Q))
    /\ pc' = "done"
    /\ UNCHANGED <<ec, caches, threads>>

\* ec._aff_from_jac(Q)
CallAffFromJac ==
    /\ pc = "idle"
    /\ \E Q \in JacPoints(ec) :
          /\ call' = [op |-> "_aff_from_jac", Q |-> Q]
          /\ ret' = Ok(_aff_from_jac(Q, ec))
    /\ pc' = "done"
    /\ UNCHANGED <<ec, caches, threads>>

\* ec._x_aff_from_jac(Q)
CallXAffFromJac ==
    /\ pc = "idle"
    /\ \E Q \in JacPoints(ec) :
          /\ call' = [op |-> "_x_aff_from_jac", Q |-> Q]
          /\ ret' = _x_aff_from_jac(Q, ec)
    /\ pc' = "done"
    /\ UNCHANGED <<ec, caches, threads>>

\* the largest number and the largest base of a conversion to digits
MaxNumber == 260

MaxBase == 17

\* convert_number_to_base(i, base)
CallConvertNumberToBase ==
    /\ pc = "idle"
    /\ \E i \in 0..MaxNumber, base \in 2..MaxBase :
          /\ call' = [op |-> "convert_number_to_base", i |-> i, base |-> base]
          /\ ret' = Ok(convert_number_to_base(i, base))
    /\ pc' = "done"
    /\ UNCHANGED <<ec, caches, threads>>

\* the largest p a curve is constructed with
MaxCtorP == 341

\* the a and b a curve is constructed with: around 0 and around p
CtorCoefficients(p) == {-1, 0, 1, 2, p - 1, p}

\* CurveGroup(p, a, b): a new object or the ValueError, ec is not touched
CallCurveGroup ==
    /\ pc = "idle"
    /\ \E p \in (-1)..MaxCtorP :
          \E a \in CtorCoefficients(p), b \in CtorCoefficients(p) :
             /\ call' = [op |-> "CurveGroup", p |-> p, a |-> a, b |-> b]
             /\ ret' = CurveGroup(p, a, b)
    /\ pc' = "done"
    /\ UNCHANGED <<ec, caches, threads>>

-----------------------------------------------------------------------------
(* The two decorated functions.  functools.lru_cache() keeps the results   *)
(* of the most recent calls, one entry for each tuple of arguments, and    *)
(* drops the least recently used entry when a new one does not fit.  A     *)
(* cache is the sequence of its entries, the least recently used first.    *)
(* The decorator keeps 128 entries; the model keeps MaxCacheEntries, so    *)
(* that a few calls fill a cache.  A CurveGroup object is hashed by its    *)
(* identity: a curve of the model is one object.                           *)

\* the key of a call of cached_multiples: its positional arguments
multiples_key_without_ec(Q, c) == <<Q>>

multiples_key(Q, c) == <<Q, c>>

\* the key of a call of cached_multiples_fixwind
fixwind_key(Q, c, w) == <<Q, c, w>>

lru_hit(cache, key) == \E i \in 1..Len(cache) : cache[i].key = key

lru_index(cache, key) == CHOOSE i \in 1..Len(cache) : cache[i].key = key

\* what the wrapper does with the cache: "hit", "miss" or, when the new
\* entry takes the place of the least recently used one, "evict"
lru_outcome(cache, key) ==
    IF lru_hit(cache, key) THEN "hit"
    ELSE IF Len(cache) >= MaxCacheEntries THEN "evict"
    ELSE "miss"

\* the stored result of a key that is in the cache
lru_value(cache, key) == cache[lru_index(cache, key)].val

\* a hit makes the entry of the key the most recently used one
lru_touch(cache, key) ==
    LET i == lru_index(cache, key)
    IN  Append(SubSeq(cache, 1, i - 1) \o SubSeq(cache, i + 1, Len(cache)),
               cache[i])

\* an insertion that does not look for the key again
lru_insert_without_test(cache, key, val) ==
    Append(IF Len(cache) >= MaxCacheEntries THEN Tail(cache) ELSE cache,
           [key |-> key, val |-> val])

\* the wrapper after the wrapped function returned val: a key that is in the
\* cache by now (another call stored it meanwhile) is left as it is, else the
\* new entry is appended, after dropping the oldest of a full cache
lru_insert(cache, key, val) ==
    IF lru_hit(cache, key) THEN cache
    ELSE Append(IF Len(cache) >= MaxCacheEntries THEN Tail(cache) ELSE cache,
                [key |-> key, val |-> val])

\* the value the wrapper returns: the stored result on a hit, else the
\* result of the wrapped function
lru_result(cache, key, computed) ==
    IF lru_hit(cache, key) THEN lru_value(cache, key) ELSE computed

\* the cache the wrapper leaves when no other call runs meanwhile
lru_store(cache, key, computed) ==
    IF lru_hit(cache, key) THEN lru_touch(cache, key)
    ELSE lru_insert(cache, key, computed)

\* cached_multiples(Q, ec) called when the cache of the function is cache
cached_multiples_lookup(cache, Q, c) ==
    lru_result(cache, multiples_key(Q, c), cached_multiples(Q, c))

cached_multiples_stored(cache, Q, c) ==
    lru_store(cache, multiples_key(Q, c), cached_multiples(Q, c))

\* cached_multiples_fixwind(Q, ec, w) called when the cache is cache
cached_multiples_fixwind_lookup(cache, Q, c, w) ==
    lru_result(cache, fixwind_key(Q, c, w), cached_multiples_fixwind(Q, c, w))

cached_multiples_fixwind_stored(cache, Q, c, w) ==
    lru_store(cache, fixwind_key(Q, c, w), cached_multiples_fixwind(Q, c, w))

\* _mult_fixed_window(m, Q, ec, w, cached=True) with its table read through
\* the cache of cached_multiples
_mult_fixed_window_through(cache, m, Q, c, w) ==
    IF m < 0 THEN Err("negative m")
    ELSE IF w <= 0 THEN Err("non positive w")
    ELSE _mult_fixed_window_from(cached_multiples_lookup(cache, Q, c), m, w, c)

\* _mult_fixed_window_cached(m, Q, ec, w) with its table read through the
\* cache of cached_multiples_fixwind
_mult_fixed_window_cached_through(cache, m, Q, c, w) ==
    IF m < 0 THEN Err("negative m")
    ELSE IF w <= 0 THEN Err("non positive w")
    ELSE _mult_fixed_window_cached_from(
             cached_multiples_fixwind_lookup(cache, Q, c, w), m, w, c)

\* the curves of the cached calls: the test curves through the point (9, 9),
\* so that one point is a key on several curves
CachePoint == <<9, 9, 1>>

CacheCurves == {c \in low_card_curves : <<9, 9>> \in Points(c)}

CacheWindows == {2, 4}

CacheScalars == {-1, 5, 22}

\* cached_multiples(Q, ec)
CallCachedMultiples ==
    /\ pc = "idle"
    /\ \E c \in CacheCurves :
          /\ call' = [op |-> "cached_multiples", Q |-> CachePoint, ec |-> c,
                      lru |-> lru_outcome(multiples_cache, multiples_key(CachePoint, c))]
          /\ ret' = Ok(cached_multiples_lookup(multiples_cache, CachePoint, c))
          /\ multiples_cache' = cached_multiples_stored(multiples_cache, CachePoint, c)
    /\ pc' = "done"
    /\ UNCHANGED <<ec, fixwind_cache, threads>>

\* cached_multiples_fixwind(Q, ec, w)
CallCachedMultiplesFixwind ==
    /\ pc = "idle"
    /\ \E c \in CacheCurves, w \in CacheWindows :
          /\ call' = [op |-> "cached_multiples_fixwind", Q |-> CachePoint,
                      ec |-> c, w |-> w,
                      lru |-> lru_outcome(fixwind_cache, fixwind_key(CachePoint, c, w))]
          /\ ret' = Ok(cached_multiples_fixwind_lookup(fixwind_cache, CachePoint, c, w))
          /\ fixwind_cache' = cached_multiples_fixwind_stored(fixwind_cache, CachePoint, c, w)
    /\ pc' = "done"
    /\ UNCHANGED <<ec, multiples_cache, threads>>

\* _mult_fixed_window(m, Q, ec, w, cached=True): a negative m raises before
\* the table is asked for
CallMultFixedWindow ==
    /\ pc = "idle"
    /\ \E m \in CacheScalars, c \in CacheCurves, w \in CacheWindows :
          /\ call' = [op |-> "_mult_fixed_window", m |-> m, Q |-> CachePoint,
                      ec |-> c, w |-> w,
                      lru |-> IF m < 0 THEN "none"
                              ELSE lru_outcome(multiples_cache,
                                               multiples_key(CachePoint, c))]
          /\ ret' = _mult_fixed_window_through(multiples_cache, m, CachePoint, c, w)
          /\ multiples_cache' =
                 IF m < 0 THEN multiples_cache
                 ELSE cached_multiples_stored(multiples_cache, CachePoint, c)
    /\ pc' = "done"
    /\ UNCHANGED <<ec, fixwind_cache, threads>>

\* _mult_fixed_window_cached(m, Q, ec, w)
CallMultFixedWindowCached ==
    /\ pc = "idle"
    /\ \E m \in CacheScalars, c \in CacheCurves, w \in CacheWindows :
          /\ call' = [op |-> "_mult_fixed_window_cached", m |-> m,
                      Q |-> CachePoint, ec |-> c, w |-> w,
                      lru |-> IF m < 0 THEN "none"
                              ELSE lru_outcome(fixwind_cache,
                                               fixwind_key(CachePoint, c, w))]
          /\ ret' = _mult_fixed_window_cached_through(fixwind_cache, m, CachePoint, c, w)
          /\ fixwind_cache' =
                 IF m < 0 THEN fixwind_cache
                 ELSE cached_multiples_fixwind_stored(fixwind_cache, CachePoint, c, w)
    /\ pc' = "done"
    /\ UNCHANGED <<ec, multiples_cache, threads>>

-----------------------------------------------------------------------------
(* The group primitives a multiplication calls, in the order of the calls. *)
(* _add_aff calls _double_aff itself when its operands are equal; the      *)
(* Jacobian primitives call no other primitive.                            *)

\* the calls of ec._add_aff(Q, R): its own, and the doubling it hands over to
_add_aff_calls(Q, R, c) ==
    IF R[2] = 0 THEN <<"_add_aff">>
    ELSE IF Q[2] = 0 THEN <<"_add_aff">>
    ELSE IF R[1] = Q[1] /\ R[2] = Q[2] THEN <<"_add_aff", "_double_aff">>
    ELSE <<"_add_aff">>

\* _mult_aff, the while loop, with the calls made so far
RECURSIVE _mult_aff_calls_loop(_, _, _, _, _)
_mult_aff_calls_loop(m, Q, R, c, calls) ==
    IF m > 0
    THEN LET Q2 == _double_aff(Q, c)
             R1 == <<R[1], _add_aff(R[1], Q2, c)>>
             R2 == <<R1[(m % 2) + 1], R1[2]>>
         IN  _mult_aff_calls_loop(m \div 2, Q2, R2, c,
                 calls \o <<"_double_aff">> \o _add_aff_calls(R[1], Q2, c))
    ELSE calls

_mult_aff_calls(m, Q, c) ==
    IF m < 0 THEN Err("negative m")
    ELSE LET R  == <<INF, Q>>
             R1 == <<R[(m % 2) + 1], R[2]>>
         IN  Ok(_mult_aff_calls_loop(m \div 2, Q, R1, c, <<>>))

\* a double & add that adds only for the bits that are 1
RECURSIVE _mult_jac_calls_loop_add_if_bit(_, _)
_mult_jac_calls_loop_add_if_bit(m, calls) ==
    IF m > 0
    THEN _mult_jac_calls_loop_add_if_bit(m \div 2,
             calls \o (IF m % 2 = 1 THEN <<"_double_jac", "_add_jac">>
                       ELSE <<"_double_jac">>))
    ELSE calls

\* _mult_jac, the while loop, with the calls made so far
RECURSIVE _mult_jac_calls_loop(_, _)
_mult_jac_calls_loop(m, calls) ==
    IF m > 0
    THEN _mult_jac_calls_loop(m \div 2, calls \o <<"_double_jac", "_add_jac">>)
    ELSE calls

_mult_jac_calls(m, Q, c) ==
    IF m < 0 THEN Err("negative m")
    ELSE Ok(_mult_jac_calls_loop(m \div 2, <<>>))

\* _mult_mont_ladder, the for loop over the bits, with the calls made so far
RECURSIVE _mult_mont_ladder_calls_loop(_, _, _)
_mult_mont_ladder_calls_loop(bits, k, calls) ==
    IF k <= Len(bits)
    THEN _mult_mont_ladder_calls_loop(bits, k + 1,
             calls \o <<"_add_jac", "_double_jac">>)
    ELSE calls

_mult_mont_ladder_calls(m, Q, c) ==
    IF m < 0 THEN Err("negative m")
    ELSE Ok(_mult_mont_ladder_calls_loop(convert_number_to_base(m, 2), 1, <<>>))

\* the routines that are written to be constant-time
ObliviousAlgorithms == {"aff", "jac", "mont_ladder"}

\* the primitive calls of one of them on the affine point Q
MultCalls(alg, m, Q, c) ==
    CASE alg = "aff" -> _mult_aff_calls(m, Q, c)
      [] alg = "jac" -> _mult_jac_calls(m, _jac_from_aff(Q), c)
      [] OTHER       -> _mult_mont_ladder_calls(m, _jac_from_aff(Q), c)

\* a multiplication run under a log of the primitives it calls
CallMultCalls ==
    /\ pc = "idle"
    /\ \E alg \in ObliviousAlgorithms, m \in (-1)..MaxScalar, Q \in Points(ec) :
          /\ call' = [op |-> "mult_calls", alg |-> alg, m |-> m, Q |-> Q]
          /\ ret' = MultCalls(alg, m, Q, ec)
    /\ pc' = "done"
    /\ UNCHANGED <<ec, caches, threads>>

\* _multi_mult(scalars, JPoints, ec) up to its while loop: the checks, the
\* filter and heapify; x is the heap the loop works on
MultiMultEnter ==
    /\ pc = "idle"
    /\ \E scalars \in SeqsUpTo((-1)..MaxMultiScalar, MaxMultiLen),
          points \in SeqsUpTo(MultiPoints(ec), MaxMultiLen) :
          LET JPoints == [k \in 1..Len(points) |-> _jac_from_aff(points[k])]
              f       == multi_mult_filter(scalars, JPoints, 1, <<>>)
              frame   == [op |-> "_multi_mult", scalars |-> scalars,
                          points |-> points, x |-> <<>>]
          IN  IF Len(scalars) # Len(JPoints)
              THEN /\ call' = frame
                   /\ ret' = Err("mismatch between number of scalars and points")
                   /\ pc' = "done"
              ELSE IF ~f.ok
              THEN /\ call' = frame
                   /\ ret' = f
                   /\ pc' = "done"
              ELSE IF f.val = <<>>
              THEN /\ call' = frame
                   /\ ret' = Ok(INFJ)
                   /\ pc' = "done"
              ELSE /\ call' = [frame EXCEPT !.x = heapify(f.val)]
                   /\ ret' = NoRet
                   /\ pc' = "loop"
    /\ UNCHANGED <<ec, caches, threads>>

\* _multi_mult: one iteration of while len(x) > 1
MultiMultIterate ==
    /\ pc = "loop"
    /\ Len(call.x) > 1
    /\ call' = [call EXCEPT !.x = BosCosterStep(@, ec)]
    /\ UNCHANGED <<ec, pc, ret, caches, threads>>

\* _multi_mult: the test of the while loop fails, the loop is over
MultiMultExit ==
    /\ pc = "loop"
    /\ Len(call.x) <= 1
    /\ pc' = "last"
    /\ UNCHANGED <<ec, call, ret, caches, threads>>

\* _multi_mult after the loop: the last entry is popped and multiplied out
MultiMultLast ==
    /\ pc = "last"
    /\ ret' = _mult(-call.x[1][1], call.x[1][2], ec)
    /\ pc' = "done"
    /\ UNCHANGED <<ec, call, caches, threads>>

\* the largest size of a table: one more than the 2 ** _MAX_W of the cache
MaxTableSize == 33

\* multiples(Q, size, ec)
CallMultiples ==
    /\ pc = "idle"
    /\ \E Q \in JacPoints(ec), size \in 0..MaxTableSize :
          /\ call' = [op |-> "multiples", Q |-> Q, size |-> size]
          /\ ret' = multiples(Q, size, ec)
    /\ pc' = "done"
    /\ UNCHANGED <<ec, caches, threads>>

\* the triples with Z = 0, with X and Y among 0, 1 and p - 1
InfTriples(c) == {<<X, Y, 0>> : X \in {0, 1, c.p - 1}, Y \in {0, 1, c.p - 1}}

\* the Jacobian operands: on-curve triples and triples with Z = 0
JacInputs(c) == JacPoints(c) \cup InfTriples(c)

\* ec._add_jac(Q, R)
CallAddJac ==
    /\ pc = "idle"
    /\ \E Q \in JacInputs(ec), R \in JacInputs(ec) :
          /\ call' = [op |-> "_add_jac", Q |-> Q, R |-> R]
          /\ ret' = Ok(_add_jac(Q, R, ec))
    /\ pc' = "done"
    /\ UNCHANGED <<ec, caches, threads>>

\* ec._double_jac(Q)
CallDoubleJac ==
    /\ pc = "idle"
    /\ \E Q \in JacInputs(ec) :
          /\ call' = [op |-> "_double_jac", Q |-> Q]
          /\ ret' = Ok(_double_jac(Q, ec))
    /\ pc' = "done"
    /\ UNCHANGED <<ec, caches, threads>>

\* ec._jac_equality(QJ, PJ)
CallJacEquality ==
    /\ pc = "idle"
    /\ \E QJ \in JacInputs(ec), PJ \in JacInputs(ec) :
          /\ call' = [op |-> "_jac_equality", QJ |-> QJ, PJ |-> PJ]
          /\ ret' = Ok(_jac_equality(QJ, PJ, ec))
    /\ pc' = "done"
    /\ UNCHANGED <<ec, caches, threads>>

-----------------------------------------------------------------------------
(* The decorated functions called by several threads.  The wrapper looks   *)
(* the key up and, after the wrapped function returned, stores the result, *)
(* each in one step (it holds the interpreter, or its lock, meanwhile);    *)
(* the wrapped function runs between the two, outside of the lock, one     *)
(* loop iteration a step, on a list T of its own.                          *)

\* the curves of the threads: two of the curves through (9, 9)
ThreadCurves == {c \in CacheCurves : c.p < 19}

\* cached_multiples(Q, ec): the lookup; a miss enters the function
ThreadCallMultiples(t) ==
    /\ threads[t].pc = "idle"
    /\ \E c \in ThreadCurves :
          LET key == multiples_key(CachePoint, c)
          IN  IF lru_hit(multiples_cache, key)
              THEN /\ threads' = [threads EXCEPT ![t] =
                          [pc |-> "done", op |-> "cached_multiples", key |-> key,
                           lru |-> "hit", ret |-> lru_value(multiples_cache, key)]]
                   /\ multiples_cache' = lru_touch(multiples_cache, key)
              ELSE /\ threads' = [threads EXCEPT ![t] =
                          [pc |-> "computing", op |-> "cached_multiples",
                           key |-> key, Q |-> CachePoint, ec |-> c,
                           i |-> 3, T |-> <<INFJ, CachePoint>>]]
                   /\ UNCHANGED multiples_cache
    /\ UNCHANGED <<ec, pc, call, ret, fixwind_cache>>

\* cached_multiples: one iteration of for i in range(3, 2 ** _MAX_W, 2)
ThreadStepMultiples(t) ==
    /\ threads[t].pc = "computing"
    /\ threads[t].op = "cached_multiples"
    /\ threads[t].i < 2 ^ _MAX_W
    /\ threads' = [threads EXCEPT ![t].i = @ + 2,
                                  ![t].T = multiples_iteration(threads[t].i, @,
                                               threads[t].Q, threads[t].ec)]
    /\ UNCHANGED <<ec, pc, call, ret, caches>>

\* cached_multiples: return T, and the wrapper stores it
ThreadStoreMultiples(t) ==
    /\ threads[t].pc = "computing"
    /\ threads[t].op = "cached_multiples"
    /\ threads[t].i >= 2 ^ _MAX_W
    /\ multiples_cache' = lru_insert(multiples_cache, threads[t].key, threads[t].T)
    /\ threads' = [threads EXCEPT ![t] =
           [pc |-> "done", op |-> "cached_multiples", key |-> threads[t].key,
            lru |-> "miss", ret |-> threads[t].T]]
    /\ UNCHANGED <<ec, pc, call, ret, fixwind_cache>>

\* cached_multiples_fixwind(Q, ec, 4): the lookup; a miss enters the function
ThreadCallFixwind(t) ==
    /\ threads[t].pc = "idle"
    /\ \E c \in ThreadCurves :
          LET key == fixwind_key(CachePoint, c, 4)
          IN  IF lru_hit(fixwind_cache, key)
              THEN /\ threads' = [threads EXCEPT ![t] =
                          [pc |-> "done", op |-> "cached_multiples_fixwind",
                           key |-> key, lru |-> "hit",
                           ret |-> lru_value(fixwind_cache, key)]]
                   /\ fixwind_cache' = lru_touch(fixwind_cache, key)
              ELSE /\ threads' = [threads EXCEPT ![t] =
                          [pc |-> "computing", op |-> "cached_multiples_fixwind",
                           key |-> key, Q |-> CachePoint, ec |-> c, w |-> 4,
                           i |-> ((c.psize * 8) \div 4) + 1,
                           K |-> CachePoint, T |-> <<>>]]
                   /\ UNCHANGED fixwind_cache
    /\ UNCHANGED <<ec, pc, call, ret, multiples_cache>>

\* cached_multiples_fixwind: one iteration of the outer loop, i to go
ThreadStepFixwind(t) ==
    /\ threads[t].pc = "computing"
    /\ threads[t].op = "cached_multiples_fixwind"
    /\ threads[t].i > 0
    /\ LET next == cached_multiples_fixwind_iteration(threads[t].K, threads[t].T,
                       threads[t].w, threads[t].ec)
       IN  threads' = [threads EXCEPT ![t].i = @ - 1,
                                      ![t].K = next.K,
                                      ![t].T = next.T]
    /\ UNCHANGED <<ec, pc, call, ret, caches>>

\* cached_multiples_fixwind: return T, and the wrapper stores it
ThreadStoreFixwind(t) ==
    /\ threads[t].pc = "computing"
    /\ threads[t].op = "cached_multiples_fixwind"
    /\ threads[t].i = 0
    /\ fixwind_cache' = lru_insert(fixwind_cache, threads[t].key, threads[t].T)
    /\ threads' = [threads EXCEPT ![t] =
           [pc |-> "done", op |-> "cached_multiples_fixwind",
            key |-> threads[t].key, lru |-> "miss", ret |-> threads[t].T]]
    /\ UNCHANGED <<ec, pc, call, ret, multiples_cache>>

\* the thread takes the table and is ready for the next call
ThreadReturn(t) ==
    /\ threads[t].pc = "done"
    /\ threads' = [threads EXCEPT ![t] = IdleThread]
    /\ UNCHANGED <<ec, pc, call, ret, caches>>

\* the caller takes the result and is ready for the next call
Return ==
    /\ pc = "done"
    /\ pc' = "idle"
    /\ call' = NoCall
    /\ ret' = NoRet
    /\ UNCHANGED <<ec, caches, threads>>

Next ==
    \/ CallAdd \/ CallNegate \/ CallIsOnCurve \/ CallY \/ CallYQuadraticResidue
    \/ CallYOdd \/ CallYLow
    \/ CallJacFromAff \/ CallAffFromJac \/ CallXAffFromJac
    \/ CallConvertNumberToBase
    \/ CallAddJac \/ CallDoubleJac \/ CallJacEquality \/ CallMultiples
    \/ MultiMultEnter \/ MultiMultIterate \/ MultiMultExit \/ MultiMultLast
    \/ CallMultCalls
    \/ CallCachedMultiples \/ CallCachedMultiplesFixwind
    \/ CallMultFixedWindow \/ CallMultFixedWindowCached
    \/ CallMult \/ CallDoubleMult \/ CallMultiMult \/ CallCurveGroup \/ Return
    \/ \E t \in Threads :
          \/ ThreadCallMultiples(t) \/ ThreadStepMultiples(t)
          \/ ThreadStoreMultiples(t)
          \/ ThreadCallFixwind(t) \/ ThreadStepFixwind(t)
          \/ ThreadStoreFixwind(t)
          \/ ThreadReturn(t)

Spec == Init /\ [][Next]_vars

\* the calls on the group: points, membership, recovery of y
NextGroup ==
    \/ CallAdd \/ CallNegate \/ CallIsOnCurve \/ CallY \/ CallYQuadraticResidue
    \/ CallYOdd \/ CallYLow
    \/ CallJacFromAff \/ CallAffFromJac \/ CallXAffFromJac
    \/ Return

SpecGroup == Init /\ [][NextGroup]_vars

\* addition and the scalar multiplications
NextArith == CallAdd \/ CallMult \/ CallDoubleMult \/ CallMultiMult \/ Return

SpecArith == Init /\ [][NextArith]_vars

\* construction of curves, beside the good curve of test_exceptions
InitCtor == Init /\ ec = Curve(13, 0, 2, <<1, 9>>, 19)

NextCtor == CallCurveGroup \/ Return

SpecCtor == InitCtor /\ [][NextCtor]_vars

\* the conversion of numbers to digits
NextDigits == CallConvertNumberToBase \/ Return

SpecDigits == InitCtor /\ [][NextDigits]_vars

\* the calls that go through the two caches
NextCache ==
    \/ CallCachedMultiples \/ CallCachedMultiplesFixwind
    \/ CallMultFixedWindow \/ CallMultFixedWindowCached
    \/ Return

SpecCache == InitCtor /\ [][NextCache]_vars

\* addition, doubling and equality in Jacobian coordinates
NextJac == CallAddJac \/ CallDoubleJac \/ CallJacEquality \/ Return

SpecJac == Init /\ [][NextJac]_vars

\* _multi_mult step by step
NextBosCoster ==
    \/ MultiMultEnter \/ MultiMultIterate \/ MultiMultExit \/ MultiMultLast
    \/ Return

SpecBosCoster == InitCtor /\ [][NextBosCoster]_vars

\* the same with a thread that goes on while it is in the loop
SpecBosCosterFair ==
    /\ SpecBosCoster
    /\ WF_vars(MultiMultIterate)
    /\ WF_vars(MultiMultExit)

\* after ec = CurveGroup(p, a, b)
InitGroups ==
    /\ ec \in Groups
    /\ pc = "idle"
    /\ call = NoCall
    /\ ret = NoRet
    /\ multiples_cache = <<>>
    /\ fixwind_cache = <<>>
    /\ threads = [t \in Threads |-> IdleThread]

\* the roots of y^2 = x^3 + a*x + b on a group
NextRoots == CallY \/ CallYOdd \/ CallYLow \/ CallYQuadraticResidue \/ Return

SpecRoots == InitGroups /\ [][NextRoots]_vars

\* the primitive calls of the multiplications
NextCalls == CallMultCalls \/ Return

SpecCalls == Init /\ [][NextCalls]_vars

\* the tables of multiples
NextTables == CallMultiples \/ Return

SpecTables == Init /\ [][NextTables]_vars

\* the threads on the two caches
NextThreads ==
    \E t \in Threads :
       \/ ThreadCallMultiples(t) \/ ThreadStepMultiples(t)
       \/ ThreadStoreMultiples(t)
       \/ ThreadCallFixwind(t) \/ ThreadStepFixwind(t)
       \/ ThreadStoreFixwind(t)
       \/ ThreadReturn(t)

SpecThreads == InitCtor /\ [][NextThreads]_vars

-----------------------------------------------------------------------------
(* Properties of the scalar multiplications.                               *)

\* C1: scalar multiplication is additive in the scalar: for the generator G
\* of order n and all u, v in [0, n), also when u + v >= n, the default
\* multiplication _mult, converted to affine, gives
\* mult(u + v, G) = add(mult(u, G), mult(v, G)).  Here u is the scalar of
\* the finished call and v ranges over [0, n).
C1_MultAdditive ==
    (/\ pc = "done" /\ call.op = "mult" /\ call.alg = "fixed_window"
     /\ call.Q = ec.G /\ call.m \in 0..(ec.n - 1))
    => \A v \in 0..(ec.n - 1) :
          LET GJ  == _jac_from_aff(ec.G)
              uv  == _mult(call.m + v, GJ, ec)
              mv  == _mult(v, GJ, ec)
              sum == add(Affine(ret.val, ec), Affine(mv.val, ec), ec)
          IN  /\ ret.ok /\ uv.ok /\ mv.ok /\ sum.ok
              /\ Affine(uv.val, ec) = sum.val

\* C2: Shamir-Strauss is correct: for u, v >= 0 and on-curve H, Q (H = Q,
\* H = -Q, zero scalars and the infinity point included) _double_mult(u, H,
\* v, Q) is the affine point add(mult(u, H), mult(v, Q)).
C2_DoubleMultCorrect ==
    (/\ pc = "done" /\ call.op = "double_mult" /\ call.u >= 0 /\ call.v >= 0)
    => LET mu  == _mult(call.u, _jac_from_aff(call.H), ec)
           mv  == _mult(call.v, _jac_from_aff(call.Q), ec)
           sum == add(Affine(mu.val, ec), Affine(mv.val, ec), ec)
       IN  /\ ret.ok /\ mu.ok /\ mv.ok /\ sum.ok
           /\ Affine(ret.val, ec) = sum.val

\* the affine sum of scalars[i] * points[i] over the first k entries
RECURSIVE SumOfMultiples(_, _, _, _)
SumOfMultiples(scalars, points, k, c) ==
    IF k = 0 THEN INF
    ELSE _add_aff(SumOfMultiples(scalars, points, k - 1, c),
                  _mult_aff(scalars[k], points[k], c).val, c)

\* C3: Bos-Coster returns the sum: for lists of the same length of scalars
\* >= 0 and on-curve points, _multi_mult(scalars, points) is the affine
\* point sum_i scalars[i] * points[i]; the entries with scalar 0 change
\* nothing, and the result is the infinity point when every scalar is 0 or
\* the lists are empty.
C3_MultiMultIsSum ==
    (/\ pc = "done" /\ call.op = "multi_mult"
     /\ Len(call.scalars) = Len(call.points)
     /\ \A k \in 1..Len(call.scalars) : call.scalars[k] >= 0)
    => /\ ret.ok
       /\ Affine(ret.val, ec) =
             SumOfMultiples(call.scalars, call.points, Len(call.scalars), ec)
       /\ (\A k \in 1..Len(call.scalars) : call.scalars[k] = 0)
             => Affine(ret.val, ec) = INF

\* the five Jacobian single-scalar algorithms
JacobianAlgorithms ==
    {"jac", "mont_ladder", "base_3", "fixed_window", "fixed_window_cached"}

\* C4: the five single-scalar algorithms agree for every input: for every
\* on-curve Q and every m >= 0, also at and above the group order, each of
\* _mult_jac, _mult_mont_ladder, _mult_base_3, _mult_fixed_window (w = 4)
\* and _mult_fixed_window_cached (w = 4) returns a result and the five
\* results are the same affine point.
C4_AlgorithmsAgree ==
    (pc = "done" /\ call.op = "mult" /\ call.alg = "jac" /\ call.m >= 0)
    => /\ ret.ok
       /\ \A alg \in JacobianAlgorithms :
             LET r == MultBy(alg, call.m, call.Q, ec)
             IN  r.ok /\ Affine(r.val, ec) = Affine(ret.val, ec)

\* C5: the affine and the Jacobian double-and-add agree: for every on-curve
\* affine Q, INF included, and every m >= 0,
\* _mult_aff(m, Q) = _aff_from_jac(_mult_jac(m, _jac_from_aff(Q))).
C5_AffJacAgree ==
    (pc = "done" /\ call.op = "mult" /\ call.alg = "aff" /\ call.m >= 0)
    => LET j == _mult_jac(call.m, _jac_from_aff(call.Q), ec)
       IN  ret.ok /\ j.ok /\ ret.val = _aff_from_jac(j.val, ec)

-----------------------------------------------------------------------------
(* Properties of the group law.                                            *)

\* P is the infinity point or a pair in range that satisfies the equation
IsPoint(P, c) ==
    \/ P = INF
    \/ /\ P[1] \in 0..(c.p - 1) /\ P[2] \in 1..(c.p - 1)
       /\ (P[2] * P[2]) % c.p = (P[1] * P[1] * P[1] + c.a * P[1] + c.b) % c.p

OnCurveInputs ==
    CASE call.op = "add" -> IsPoint(call.Q1, ec) /\ IsPoint(call.Q2, ec)
      [] call.op = "mult" -> IsPoint(call.Q, ec)
      [] call.op = "double_mult" -> IsPoint(call.H, ec) /\ IsPoint(call.Q, ec)
      [] call.op = "multi_mult" ->
            \A k \in 1..Len(call.points) : IsPoint(call.points[k], ec)
      [] OTHER -> FALSE

\* C7: the group operations are closed on the curve: for on-curve inputs,
\* every affine result of add, of each scalar multiplication, of
\* _double_mult and of _multi_mult has both coordinates in [0, p) and is
\* the infinity point (y = 0) or satisfies y^2 = x^3 + a*x + b (mod p):
\* is_on_curve of the result returns True.
C7_Closed ==
    (pc = "done" /\ ret.ok /\ OnCurveInputs)
    => LET R == Affine(ret.val, ec)
       IN  /\ R[1] \in 0..(ec.p - 1)
           /\ R[2] \in 0..(ec.p - 1)
           /\ IsPoint(R, ec)
           /\ is_on_curve(R, ec) = Ok(TRUE)

\* a multiplication by a scalar above 1 returned a finite point of the curve
C7_Witness ==
    /\ pc = "done" /\ ret.ok /\ call.op = "mult" /\ call.alg = "mont_ladder"
    /\ call.m > 1 /\ call.Q # INF
    /\ Affine(ret.val, ec)[2] # 0
    /\ Affine(ret.val, ec) # call.Q
    /\ IsPoint(Affine(ret.val, ec), ec)

-----------------------------------------------------------------------------
(* Properties of the construction and of the checks of points.             *)

\* p is an odd prime, by trial division
IsOddPrime(p) == p > 2 /\ \A d \in 2..(p - 1) : p % d # 0

\* C8 as stated: construction with a p that is not an odd prime always
\* fails: for every p that is < 2, even or an odd composite, and every a
\* and b, CurveGroup(p, a, b) raises "p is not prime" and builds no object.
C8_NonPrimeRejected ==
    (pc = "done" /\ call.op = "CurveGroup" /\ ~IsOddPrime(call.p))
    => ret = Err("p is not prime")

\* C8: construction fails with "p is not prime", whatever a and b are, for
\* every p that is < 2 or even, and for every odd composite p that fails
\* the Fermat test to base 2 (2^(p-1) mod p # 1); every odd composite
\* below 341 fails it.
C8_FermatRejected ==
    (/\ pc = "done" /\ call.op = "CurveGroup" /\ ~IsOddPrime(call.p)
     /\ (call.p < 2 \/ call.p % 2 = 0 \/ call.p < 341 \/ pow(2, call.p - 1, call.p) # 1))
    => ret = Err("p is not prime")

\* an odd composite p was rejected although a and b are good coefficients
C8_Witness ==
    /\ pc = "done" /\ call.op = "CurveGroup"
    /\ call.p = 15 /\ call.a = 0 /\ call.b = 2
    /\ ret = Err("p is not prime")

\* C9: is_on_curve validates the ranges before the equation: for (x, y) it
\* returns True when y = 0; it fails with an error when x or y is outside
\* [0, p); otherwise it returns True exactly when y^2 = x^3 + a*x + b
\* (mod p).  A pair (x + p, y) built from an on-curve (x, y) is not accepted.
C9_RangesValidated ==
    (pc = "done" /\ call.op = "is_on_curve")
    => LET x == call.Q[1]
           yy == call.Q[2]
           p == ec.p
       IN  IF yy = 0 THEN ret = Ok(TRUE)
           ELSE IF x \notin 0..(p - 1) \/ yy \notin 0..(p - 1) THEN ~ret.ok
           ELSE ret = Ok((yy * yy) % p = (x * x * x + ec.a * x + ec.b) % p)

\* C10: on a curve with p = 3 (mod 4), for every x in [0, p) for which
\* x^3 + a*x + b is a nonzero quadratic residue: y_quadratic_residue(x, 1)
\* returns the root that is a quadratic residue, y_quadratic_residue(x, 0)
\* the root that is not, and the two results sum to p.
C10_QuadraticResidueRoot ==
    (/\ pc = "done" /\ call.op = "y_quadratic_residue"
     /\ ec.p % 4 = 3 /\ call.quad_res \in {0, 1} /\ call.x \in 0..(ec.p - 1)
     /\ legendre_symbol(_y2(call.x, ec), ec.p) = 1)
    => /\ ret.ok
       /\ ret.val \in 1..(ec.p - 1)
       /\ (ret.val * ret.val) % ec.p = _y2(call.x, ec)
       /\ (\E r \in 1..(ec.p - 1) : (r * r) % ec.p = ret.val) <=> (call.quad_res = 1)
       /\ \A other \in y_quadratic_residue(call.x, 1 - call.quad_res, ec) :
             other.ok /\ other.val + ret.val = ec.p

\* the root that is not a quadratic residue was asked for and returned
C10_Witness ==
    /\ pc = "done" /\ call.op = "y_quadratic_residue"
    /\ ec.p % 4 = 3 /\ call.quad_res = 0 /\ ret.ok
    /\ ret.val \in 1..(ec.p - 1)
    /\ ~ \E r \in 1..(ec.p - 1) : (r * r) % ec.p = ret.val

-----------------------------------------------------------------------------
(* Properties of the recovery of y.                                        *)

\* x^3 + a*x + b has a square root modulo p
HasRoot(x, c) ==
    \E r \in 0..(c.p - 1) : (r * r) % c.p = (x * x * x + c.a * x + c.b) % c.p

\* C11: for every x in [0, p) that has a root, y_odd(x, 1) is odd,
\* y_odd(x, 0) is even and the two sum to p; a parity argument other than
\* 0 and 1 is rejected with an error before any root is computed.
C11_YOdd ==
    (pc = "done" /\ call.op = "y_odd")
    => /\ call.odd1even0 \notin {0, 1}
             => ret = Err("odd1even0 must be bool or 1/0")
       /\ (/\ call.odd1even0 \in {0, 1} /\ call.x \in 0..(ec.p - 1)
           /\ HasRoot(call.x, ec))
             => /\ ret.ok
                /\ ret.val % 2 = call.odd1even0
                /\ \A other \in y_odd(call.x, 1 - call.odd1even0, ec) :
                      other.ok /\ other.val + ret.val = ec.p

\* the even root was asked for and returned, on a curve with p = 1 (mod 4)
C11_Witness ==
    /\ pc = "done" /\ call.op = "y_odd" /\ call.odd1even0 = 0
    /\ ec.p % 4 = 1 /\ ret.ok /\ ret.val % 2 = 0 /\ ret.val > 0

\* C12: for every x in [0, p) that has a root, y_low(x, 1) returns the
\* smaller root, a value <= floor(p/2), and y_low(x, 0) the larger, a value
\* > floor(p/2): y_low(x, 1) < y_low(x, 0) and the two sum to p.
C12_YLow ==
    (/\ pc = "done" /\ call.op = "y_low" /\ call.low1high0 \in {0, 1}
     /\ call.x \in 0..(ec.p - 1) /\ HasRoot(call.x, ec))
    => /\ ret.ok
       /\ (call.low1high0 = 1) <=> (ret.val <= ec.p \div 2)
       /\ \A other \in y_low(call.x, 1 - call.low1high0, ec) :
             /\ other.ok /\ other.val + ret.val = ec.p
             /\ IF call.low1high0 = 1 THEN ret.val < other.val
                                      ELSE other.val < ret.val

\* the larger root was asked for and returned
C12_Witness ==
    /\ pc = "done" /\ call.op = "y_low" /\ call.low1high0 = 0
    /\ ret.ok /\ ret.val > ec.p \div 2 /\ ret.val < ec.p

\* C13: y(x) recovers a root or fails: for x outside [0, p) it fails with
\* "x-coordinate not in 0..p-1"; for x in [0, p) whose x^3 + a*x + b is a
\* quadratic non-residue it fails with "invalid x-coordinate"; otherwise it
\* returns r with r^2 = x^3 + a*x + b (mod p), so (x, r) passes the curve
\* equation; both for p = 3 (mod 4) and for p = 1 (mod 4).
C13_YRootOrError ==
    (pc = "done" /\ call.op = "y")
    => IF call.x \notin 0..(ec.p - 1)
       THEN ret = Err("x-coordinate not in 0..p-1")
       ELSE IF ~HasRoot(call.x, ec)
       THEN ret = Err("invalid x-coordinate")
       ELSE /\ ret.ok
            /\ (ret.val * ret.val) % ec.p
                  = (call.x * call.x * call.x + ec.a * call.x + ec.b) % ec.p
            /\ is_on_curve(<<call.x, ret.val>>, ec) = Ok(TRUE)

\* a root was returned on a curve with p = 1 (mod 4)
C13_Witness ==
    /\ pc = "done" /\ call.op = "y" /\ ec.p % 4 = 1
    /\ ret.ok /\ ret.val \in 1..(ec.p - 1)
    /\ is_on_curve(<<call.x, ret.val>>, ec) = Ok(TRUE)

-----------------------------------------------------------------------------
(* Properties of the rejected arguments.                                   *)

\* C14: negative scalars are rejected by every multiplication routine:
\* _mult_aff, _mult_jac, _mult_mont_ladder, _mult_base_3,
\* _mult_fixed_window and _mult_fixed_window_cached fail for every m < 0,
\* _double_mult fails when u < 0 or v < 0, _multi_mult fails when any
\* scalar is negative, wherever it is in the list and also next to zero
\* scalars; none of them returns a point then.
C14_NegativeRejected ==
    /\ (pc = "done" /\ call.op = "mult" /\ call.m < 0)
          => ret = Err("negative m")
    /\ (pc = "done" /\ call.op = "double_mult" /\ call.u < 0)
          => ret = Err("negative first coefficient")
    /\ (pc = "done" /\ call.op = "double_mult" /\ call.u >= 0 /\ call.v < 0)
          => ret = Err("negative second coefficient")
    /\ (/\ pc = "done" /\ call.op = "multi_mult"
        /\ \E k \in 1..Len(call.scalars) : call.scalars[k] < 0)
          => /\ ~ret.ok
             /\ Len(call.scalars) = Len(call.points)
                   => ret = Err("negative coefficient")

\* a list with a zero scalar before a negative one was rejected
C14_Witness ==
    /\ pc = "done" /\ call.op = "multi_mult"
    /\ call.scalars = <<0, -1>> /\ Len(call.points) = 2
    /\ ret = Err("negative coefficient")

\* the number of bytes of p
ByteLength(p) == CHOOSE k \in 1..3 : 256 ^ (k - 1) <= p /\ p < 256 ^ k

\* C15: for an odd prime p, CurveGroup(p, a, b) succeeds exactly when
\* 0 <= a < p, 0 <= b < p and 4a^3 + 27b^2 is not 0 mod p; otherwise it
\* fails with the ValueError of the first violated check in the order
\* negative a, p <= a, negative b, p <= b, zero discriminant.  On success
\* the stored p, a, b are the inputs, psize = ceil(bit_length(p) / 8) and
\* pIsThreeModFour = (p mod 4 = 3).
C15_CtorChecks ==
    (pc = "done" /\ call.op = "CurveGroup" /\ IsOddPrime(call.p))
    => LET p == call.p
           a == call.a
           b == call.b
       IN  ret = IF a < 0 THEN Err("negative a")
                 ELSE IF p <= a THEN Err("p <= a")
                 ELSE IF b < 0 THEN Err("negative b")
                 ELSE IF p <= b THEN Err("p <= b")
                 ELSE IF (4 * a * a * a + 27 * b * b) % p = 0
                 THEN Err("zero discriminant")
                 ELSE Ok([p |-> p, a |-> a, b |-> b,
                          psize |-> ByteLength(p),
                          pIsThreeModFour |-> (p % 4 = 3)])

\* a curve over a two-byte prime p = 3 (mod 4) was constructed
C15_Witness ==
    /\ pc = "done" /\ call.op = "CurveGroup" /\ IsOddPrime(call.p)
    /\ call.p > 256 /\ call.p % 4 = 3
    /\ ret.ok /\ ret.val.psize = 2 /\ ret.val.pIsThreeModFour
    /\ ret.val.a = call.p - 1

\* C16: on a curve whose p is not 3 mod 4, y_quadratic_residue(x, qr)
\* fails with "field prime is not equal to 3 mod 4" for every x, valid or
\* not, and for qr = 0 and qr = 1, and never returns a value; a qr outside
\* {0, 1} is rejected first with "quad_res must be bool or 1/0".
C16_NotThreeModFour ==
    (pc = "done" /\ call.op = "y_quadratic_residue")
    => /\ call.quad_res \notin {0, 1}
             => ret = Err("quad_res must be bool or 1/0")
       /\ (call.quad_res \in {0, 1} /\ ec.p % 4 # 3)
             => ret = Err("field prime is not equal to 3 mod 4")

\* the x of the generator was rejected on a curve with p = 1 (mod 4)
C16_Witness ==
    /\ pc = "done" /\ call.op = "y_quadratic_residue"
    /\ ec.p % 4 = 1 /\ call.x = ec.G[1] /\ call.quad_res = 1
    /\ ret = Err("field prime is not equal to 3 mod 4")

-----------------------------------------------------------------------------
(* Properties of the enumeration of a group and of the conversions.        *)

\* the curve y^2 = x^3 + 2 over F_13 with G = (1, 9) of order 19
ec13_19 == Curve(13, 0, 2, <<1, 9>>, 19)

\* C17: on ec13_19 the points mult(k, G) for k = 0..18 are 19 pairwise
\* distinct affine points, mult(18, G) = negate(G) = (1, 4) and
\* mult(19, G) = INF; for k in [0, 2*19), mult(k, G) = mult(k mod 19, G).
\* Here mult is _mult converted to affine and k the scalar of the call.
C17_Enumeration ==
    (/\ pc = "done" /\ call.op = "mult" /\ call.alg = "fixed_window"
     /\ ec = ec13_19 /\ call.Q = ec.G /\ call.m \in 0..(2 * 19 - 1))
    => LET GJ == _jac_from_aff(ec.G)
           kG == Affine(ret.val, ec)
       IN  /\ ret.ok
           /\ kG = Affine(_mult(call.m % 19, GJ, ec).val, ec)
           /\ call.m = 18 => kG = <<1, 4>> /\ kG = negate(ec.G, ec)
           /\ call.m = 19 => kG = INF
           /\ call.m <= 18 =>
                 \A j \in (0..18) \ {call.m} :
                    Affine(_mult(j, GJ, ec).val, ec) # kG

RECURSIVE DigitsValue(_, _)
DigitsValue(digits, base) ==
    IF digits = <<>> THEN 0
    ELSE DigitsValue(SubSeq(digits, 1, Len(digits) - 1), base) * base
         + digits[Len(digits)]

\* C19: convert_number_to_base(i, base) terminates for every i >= 0 and
\* base >= 2 and returns a non-empty most-significant-first list of digits
\* in [0, base) whose value sum(d_k * base^(len-1-k)) is i; the list is [0]
\* for i = 0 and has no leading zero for i > 0.
C19_Digits ==
    (/\ pc = "done" /\ call.op = "convert_number_to_base"
     /\ call.i >= 0 /\ call.base >= 2)
    => /\ ret.ok
       /\ Len(ret.val) >= 1
       /\ \A k \in 1..Len(ret.val) : ret.val[k] \in 0..(call.base - 1)
       /\ DigitsValue(ret.val, call.base) = call.i
       /\ call.i = 0 => ret.val = <<0>>
       /\ call.i > 0 => ret.val[1] # 0

\* a number of three digits that is no palindrome was converted
C19_Witness ==
    /\ pc = "done" /\ call.op = "convert_number_to_base"
    /\ call.i = 258 /\ call.base = 16 /\ ret = Ok(<<1, 0, 2>>)


-----------------------------------------------------------------------------
\* C20: whatever earlier calls left in the two caches (misses, hits and
\* evictions), a call of cached_multiples, cached_multiples_fixwind,
\* _mult_fixed_window(cached=True) or _mult_fixed_window_cached returns
\* exactly the value the same call returns when the caches are empty.
C20_CacheTransparent ==
    pc = "done" =>
        /\ call.op = "cached_multiples" =>
               ret = Ok(cached_multiples_lookup(<<>>, call.Q, call.ec))
        /\ call.op = "cached_multiples_fixwind" =>
               ret = Ok(cached_multiples_fixwind_lookup(<<>>, call.Q, call.ec, call.w))
        /\ call.op = "_mult_fixed_window" =>
               ret = _mult_fixed_window_through(<<>>, call.m, call.Q, call.ec, call.w)
        /\ call.op = "_mult_fixed_window_cached" =>
               ret = _mult_fixed_window_cached_through(<<>>, call.m, call.Q,
                                                       call.ec, call.w)

\* a multiplication served from a full cache that also holds the table of
\* the same point and window on another curve, the other cache in use too
C20_Witness ==
    /\ pc = "done"
    /\ call.op = "_mult_fixed_window_cached"
    /\ call.lru = "hit"
    /\ call.m > 0
    /\ ret.ok
    /\ Len(fixwind_cache) = MaxCacheEntries
    /\ \E i \in 1..Len(fixwind_cache) :
          /\ fixwind_cache[i].key[1] = call.Q
          /\ fixwind_cache[i].key[2] # call.ec
          /\ fixwind_cache[i].key[3] = call.w
    /\ Len(multiples_cache) > 0

-----------------------------------------------------------------------------
\* the keys a cache holds a table for
KeysOf(cache) == {cache[i].key : i \in 1..Len(cache)}

\* C21: a table, once computed and cached for a key, stays in its cache: no
\* call, whatever its key, removes the entry of another key, so that every
\* later call with the same key is a hit.
C21_NeverInvalidated ==
    [][/\ KeysOf(multiples_cache) \subseteq KeysOf(multiples_cache')
       /\ KeysOf(fixwind_cache) \subseteq KeysOf(fixwind_cache')]_vars

-----------------------------------------------------------------------------
\* the table a single-threaded call computes for the key of a cache entry
\* or of a thread's call
TableOf(op, key) ==
    IF op = "cached_multiples"
    THEN cached_multiples(key[1], key[2])
    ELSE cached_multiples_fixwind(key[1], key[2], key[3])

\* a cache holds at most one table for a key, the single-threaded one
CacheCoherent(op, cache) ==
    /\ \A i \in 1..Len(cache), j \in 1..Len(cache) :
          cache[i].key = cache[j].key => i = j
    /\ \A i \in 1..Len(cache) : cache[i].val = TableOf(op, cache[i].key)

\* C22: with several threads in cached_multiples / cached_multiples_fixwind
\* at the same time, every call returns the complete table of its key (the
\* one a single-threaded call computes, never a partly built list), and each
\* cache holds at most one table for a key, equal to that table.
C22_ThreadSafe ==
    /\ \A t \in Threads :
          threads[t].pc = "done" =>
              threads[t].ret = TableOf(threads[t].op, threads[t].key)
    /\ CacheCoherent("cached_multiples", multiples_cache)
    /\ CacheCoherent("cached_multiples_fixwind", fixwind_cache)

\* both threads missed on the same key, each built the table, both returned
\* it, and the cache holds it once
C22_Witness ==
    /\ threads["t1"].pc = "done"
    /\ threads["t2"].pc = "done"
    /\ threads["t1"].lru = "miss"
    /\ threads["t2"].lru = "miss"
    /\ threads["t1"].op = "cached_multiples"
    /\ threads["t1"].key = threads["t2"].key
    /\ Len(threads["t1"].ret) = 2 ^ _MAX_W
    /\ Cardinality({i \in 1..Len(multiples_cache) :
                        multiples_cache[i].key = threads["t1"].key}) = 1
    /\ Len(fixwind_cache) > 0

-----------------------------------------------------------------------------
(* Jacobian coordinates.                                                   *)

\* C23: _add_jac takes every triple with Z = 0 for the infinity point: with
\* one operand I = (X, Y, 0), (0, 0, 0) included, and the other an on-curve
\* P with Z # 0, in either order, the result stands for the affine point of
\* P; with two operands of Z = 0 the result has Z = 0.
C23_ZeroZIsInfinity ==
    (pc = "done" /\ call.op = "_add_jac") =>
        /\ (call.Q[3] = 0 /\ call.R[3] # 0) =>
               /\ ret.val[3] # 0
               /\ _aff_from_jac(ret.val, ec) = _aff_from_jac(call.R, ec)
        /\ (call.Q[3] # 0 /\ call.R[3] = 0) =>
               /\ ret.val[3] # 0
               /\ _aff_from_jac(ret.val, ec) = _aff_from_jac(call.Q, ec)
        /\ (call.Q[3] = 0 /\ call.R[3] = 0) => ret.val[3] = 0

\* C24: _jac_equality decides the equality of the affine points: for triples
\* that are on the curve or have Z = 0 (each of these being infinity) it is
\* true exactly when _aff_from_jac gives the same point for both; so it is
\* false when only one of the two has Z = 0 and true when both have.
C24_JacEqualityIsAffine ==
    (pc = "done" /\ call.op = "_jac_equality") =>
        ret.val = (_aff_from_jac(call.QJ, ec) = _aff_from_jac(call.PJ, ec))

\* C25: the Jacobian arithmetic refines the affine one: for on-curve affine
\* P and Q (INF, P = Q and P = -Q included) the affine point of
\* _add_jac(_jac_from_aff(P), _jac_from_aff(Q)) is _add_aff(P, Q), and the
\* affine point of _double_jac(_jac_from_aff(P)) is _double_aff(P), which is
\* _add_aff(P, P).
C25_JacRefinesAff ==
    /\ (pc = "done" /\ call.op = "_add_jac") =>
           \A P \in Points(ec), Q \in Points(ec) :
               (call.Q = _jac_from_aff(P) /\ call.R = _jac_from_aff(Q))
               => _aff_from_jac(ret.val, ec) = _add_aff(P, Q, ec)
    /\ (pc = "done" /\ call.op = "_double_jac") =>
           \A P \in Points(ec) :
               call.Q = _jac_from_aff(P)
               => /\ _aff_from_jac(ret.val, ec) = _double_aff(P, ec)
                  /\ _double_aff(P, ec) = _add_aff(P, P, ec)

-----------------------------------------------------------------------------
(* Tables of multiples.                                                    *)

\* C26: multiples(Q, size, ec) fails with "size too low" for size < 2 and
\* else returns exactly size entries, even or odd, entry k standing for k*Q
\* (entry 0 for infinity, entry k + 1 for entry k plus Q in affine
\* arithmetic); for size 32 it is the table cached_multiples(Q, ec) returns.
C26_MultiplesTable ==
    (pc = "done" /\ call.op = "multiples") =>
        IF call.size < 2
        THEN ~ret.ok /\ ret.err = "size too low"
        ELSE /\ ret.ok
             /\ Len(ret.val) = call.size
             /\ _aff_from_jac(ret.val[1], ec) = INF
             /\ \A k \in 1..(call.size - 1) :
                    _aff_from_jac(ret.val[k + 1], ec)
                        = _add_aff(_aff_from_jac(ret.val[k], ec),
                                   _aff_from_jac(call.Q, ec), ec)
             /\ call.size = 2 ^ _MAX_W => ret.val = cached_multiples(call.Q, ec)

\* a table of odd size, of a point given with Z = 2, that runs past the order
\* of the point: infinity comes back inside the table
C26_Witness ==
    /\ pc = "done"
    /\ call.op = "multiples"
    /\ call.size = MaxTableSize
    /\ call.size % 2 = 1
    /\ call.Q[3] = 2
    /\ ret.ok
    /\ \E k \in 2..(call.size - 2) : ret.val[k + 1][3] = 0 /\ ret.val[k + 2][3] # 0

-----------------------------------------------------------------------------
(* The loop of Bos and Coster.                                             *)

\* the affine point sum of n * P over the first k entries (-n, P) of a heap
RECURSIVE HeapSum(_, _, _)
HeapSum(x, k, c) ==
    IF k = 0 THEN INF
    ELSE _add_aff(HeapSum(x, k - 1, c),
                  _mult_aff(-x[k][1], _aff_from_jac(x[k][2], c), c).val, c)

\* the sum of the scalars of the first k entries of a heap
RECURSIVE HeapScalars(_, _)
HeapScalars(x, k) == IF k = 0 THEN 0 ELSE HeapScalars(x, k - 1) - x[k][1]

\* at the start of an iteration of the while loop: the heap stands for the
\* sum of the inputs, its scalars are positive, the two entries to pop have
\* n1 >= n2
BosCosterLoopHead ==
    (pc = "loop" /\ Len(call.x) > 1) =>
        /\ HeapSum(call.x, Len(call.x), ec)
               = SumOfMultiples(call.scalars, call.points, Len(call.scalars), ec)
        /\ \A k \in 1..Len(call.x) : -call.x[k][1] > 0
        /\ -call.x[1][1] >= -call.x[2][1]

\* C27: the invariant of the while loop of _multi_mult: at the start of
\* every iteration the sum of n_i * P_i over the heap is the sum of
\* scalar_i * point_i over the inputs, every scalar of the heap is > 0, the
\* two entries popped have n1 >= n2, and an iteration never leaves the heap
\* larger than it found it.
C27_BosCosterInvariant ==
    /\ []BosCosterLoopHead
    /\ [][(pc = "loop" /\ pc' = "loop") => Len(call'.x) <= Len(call.x)]_vars

\* C28: _multi_mult terminates: for lists of the same length with scalars
\* >= 0, zeros included, a call that has entered the while loop leaves it
\* after finitely many iterations; the zero scalars are not in the heap, and
\* every iteration makes the sum of the scalars of the heap smaller by
\* n2 >= 1.
C28_Terminates ==
    /\ (pc = "loop") ~> (pc = "last")
    /\ [](pc = "loop" => \A k \in 1..Len(call.x) : call.x[k][1] # 0)
    /\ [][(pc = "loop" /\ pc' = "loop") =>
             /\ -call.x[2][1] >= 1
             /\ HeapScalars(call'.x, Len(call'.x))
                    = HeapScalars(call.x, Len(call.x)) + call.x[2][1]]_vars

\* a call with two positive scalars that went through the loop and returned
C28_Witness ==
    /\ pc = "done"
    /\ call.op = "_multi_mult"
    /\ ret.ok
    /\ Len(call.scalars) = 2
    /\ call.scalars[1] > 0
    /\ call.scalars[2] > 0
    /\ Len(call.x) = 1
    /\ HeapScalars(call.x, 1) < call.scalars[1] + call.scalars[2]

-----------------------------------------------------------------------------
(* The calls of the constant-time multiplications.                         *)

\* the calls the routine alg makes for a scalar of L bits when it makes one
\* doubling and one addition for every bit its loop goes through
RECURSIVE PairsOfCalls(_, _)
PairsOfCalls(pair, count) ==
    IF count <= 0 THEN <<>> ELSE pair \o PairsOfCalls(pair, count - 1)

ObliviousCalls(alg, L) ==
    CASE alg = "aff" -> PairsOfCalls(<<"_double_aff", "_add_aff">>, L - 1)
      [] alg = "jac" -> PairsOfCalls(<<"_double_jac", "_add_jac">>, L - 1)
      [] OTHER       -> PairsOfCalls(<<"_add_jac", "_double_jac">>, L)

\* C29 as stated: for the same point Q and any two scalars m1, m2 >= 1 of
\* equal bit length, _mult_aff, _mult_jac and _mult_mont_ladder each perform
\* the same doublings and additions in the same order for m1 as for m2.
C29_BitOblivious ==
    (pc = "done" /\ call.op = "mult_calls" /\ call.m >= 1) =>
        \A m2 \in 1..MaxScalar :
            bit_length(m2) = bit_length(call.m)
            => MultCalls(call.alg, m2, call.Q, ec) = ret

\* C29 amended: the same holds, with one doubling and one addition for every
\* bit the loop goes through (all bits but the lowest for _mult_aff and
\* _mult_jac, all bits for _mult_mont_ladder), for scalars reduced modulo the
\* order n of the point, 1 <= m < n, as the routines assume them; for
\* _mult_jac and _mult_mont_ladder also for every m >= n.
C29_BitObliviousReduced ==
    (/\ pc = "done" /\ call.op = "mult_calls" /\ call.m >= 1
     /\ call.alg = "aff" => call.m < ec.n) =>
        ret = Ok(ObliviousCalls(call.alg, bit_length(call.m)))

\* the affine double & add on a finite point and a reduced scalar of five
\* bits with ones and zeros among them
C29_Witness ==
    /\ pc = "done"
    /\ call.op = "mult_calls"
    /\ call.alg = "aff"
    /\ call.Q # INF
    /\ call.m = 21
    /\ call.m < ec.n
    /\ ret.ok
    /\ Len(ret.val) = 8

-----------------------------------------------------------------------------
(* The roots y_odd, y_low and y_quadratic_residue return.                  *)

\* C30: every value r returned by y_odd, y_low and y_quadratic_residue, for
\* x in [0, p) and a selector in {0, 1}, satisfies 0 <= r < p and
\* r^2 = x^3 + a*x + b (mod p), also when x^3 + a*x + b = 0 (mod p).
C30_RootInField ==
    (/\ pc = "done"
     /\ call.op \in {"y_odd", "y_low", "y_quadratic_residue"}
     /\ ret.ok) =>
        /\ 0 <= ret.val
        /\ ret.val < ec.p
        /\ (ret.val * ret.val) % ec.p = _y2(call.x, ec)

====
